---- MODULE Spec2Model ----
(***************************************************************************)
(* Model of the virtual file store (server/storage.ts: the exported       *)
(* DatabaseStorage object with its table of rows and its MemoryStorage     *)
(* fallback) and of the HTTP routes and virtual shell built on it          *)
(* (server/routes.ts).                                                     *)
(*                                                                         *)
(* A JavaScript string is a sequence of one-character strings, so that     *)
(* startsWith, replace, split and basename are computed as the code        *)
(* computes them.  Fixed message texts are kept as single chunks.          *)
(* null / undefined of a string-valued field is the value NULL; a field    *)
(* that must distinguish null from "" (content) is an option: <<>> for     *)
(* null, <<s>> for the string s.                                           *)
(***************************************************************************)
EXTENDS Integers, Sequences, FiniteSets, TLC

VARIABLES
    fallbackStorage, \* DatabaseStorage.fallbackStorage is set (non-null)
    files,      \* MemoryStorage.files of the fallback: insertion-ordered Map
                \* path -> File (empty while no fallback is installed)
    db,         \* the rows of table files, in the order a select returns them
    dbConnected, \* DatabaseStorage.dbConnected
    sessions,   \* terminalSessions: session id -> cwd (NoSession when absent)
    nextId,     \* stands for the fresh values of Math.random()/gen_random_uuid
    clock,      \* stands for new Date(): one tick per request handled
    prev,       \* the records the store held when the last request arrived
    prevSessions, \* the session registry when the last request arrived
    last,       \* the last request together with the response sent for it
    pending,    \* the store calls whose promise has not resolved yet
    startup,    \* where initializeDefaultProject stands
    instances   \* how many MemoryStorage objects have been constructed

vars == <<fallbackStorage, files, db, dbConnected, sessions, nextId, clock,
          prev, prevSessions, last, pending, startup, instances>>

\* ------------------------------------------------------------------ bounds
\* requests handled by a process started without / with DATABASE_URL
MaxClock == 3
MaxDbClock == 4

\* ----------------------------------------------------------------- strings
NULL == <<>>        \* null/undefined of parentPath (the code never stores "")
None == <<>>        \* content: null
Some(s) == <<s>>    \* content: the string s

Slash == "/"
Root == <<"/">>

\* s.startsWith(p)
StartsWith(s, p) ==
    /\ Len(p) <= Len(s)
    /\ SubSeq(s, 1, Len(p)) = p

\* s.indexOf(p) + 1, and 0 when p does not occur
IndexOf(s, p) ==
    LET hits == {i \in 1..(Len(s) - Len(p) + 1) : SubSeq(s, i, i + Len(p) - 1) = p}
    IN  IF hits = {} THEN 0 ELSE CHOOSE i \in hits : \A j \in hits : i <= j

\* s.replace(old, new) with a string pattern: the first occurrence only,
\* wherever it is.  (No "$" occurs in the model's alphabet, so the
\* replacement text is taken literally.)
Replace(s, old, new) ==
    LET i == IndexOf(s, old)
    IN  IF i = 0 THEN s
        ELSE SubSeq(s, 1, i - 1) \o new \o SubSeq(s, i + Len(old), Len(s))

\* position of the last "/" of s, 0 when there is none
LastSlash(s) ==
    LET hits == {i \in 1..Len(s) : s[i] = Slash}
    IN  IF hits = {} THEN 0 ELSE CHOOSE i \in hits : \A j \in hits : j <= i

\* s.split('/').pop()
SplitPop(s) == SubSeq(s, LastSlash(s) + 1, Len(s))

\* s.split('/').filter(p => p): the non-empty segments of s
RECURSIVE Segments(_)
Segments(s) ==
    IF s = <<>> THEN <<>>
    ELSE LET k == LastSlash(s)
             seg == SubSeq(s, k + 1, Len(s))
             rest == IF k = 0 THEN <<>> ELSE Segments(SubSeq(s, 1, k - 1))
         IN  IF seg = <<>> THEN rest ELSE Append(rest, seg)

\* '/' + parts.join('/') for a non-empty list of parts
RECURSIVE JoinAbs(_)
JoinAbs(parts) ==
    IF parts = <<>> THEN <<>>
    ELSE JoinAbs(SubSeq(parts, 1, Len(parts) - 1)) \o <<Slash>> \o parts[Len(parts)]

\* path.basename(p) of node's posix path module: trailing slashes are
\* dropped, then the part after the last remaining slash; "" for "/".
RECURSIVE StripTrailingSlashes(_)
StripTrailingSlashes(s) ==
    IF s # <<>> /\ s[Len(s)] = Slash
    THEN StripTrailingSlashes(SubSeq(s, 1, Len(s) - 1))
    ELSE s

basename(p) == SplitPop(StripTrailingSlashes(p))

\* ------------------------------------------------- Map<string, File>
\* The Map keeps insertion order; every entry is stored under the key that
\* equals its own path field (storage.ts 489, 516, 529, 564, 585).
MapIndex(m, k) ==
    LET hits == {i \in 1..Len(m) : m[i].path = k}
    IN  IF hits = {} THEN 0 ELSE CHOOSE i \in hits : TRUE

MapHas(m, k) == MapIndex(m, k) # 0

MapGet(m, k) == m[MapIndex(m, k)]

\* a set that never replaces the entry stored under the key
MapSet_AlwaysAppends(m, k, v) == Append(m, v)

\* Map.set: an existing key keeps its position, a new key goes last
MapSet(m, k, v) ==
    IF MapHas(m, k) THEN [m EXCEPT ![MapIndex(m, k)] = v] ELSE Append(m, v)

\* Map.delete
MapDelete(m, k) == SelectSeq(m, LAMBDA f : f.path # k)

\* x || null for a content value: null, undefined and "" all give null
ContentOrNull(c) == IF c = None \/ c = Some(<<>>) THEN None ELSE c

\* ---------------------------------------------------- MemoryStorage
File(id, name, path, content, isDirectory, parentPath, now) ==
    [id |-> id, name |-> name, path |-> path, content |-> content,
     isDirectory |-> isDirectory, parentPath |-> parentPath,
     createdAt |-> now, updatedAt |-> now]

\* ---------------------------------------------- the default project
N_project == <<"m", "y", "-", "w", "e", "b", "-", "p", "r", "o", "j", "e", "c", "t">>
N_src == <<"s", "r", "c">>
N_index == <<"i", "n", "d", "e", "x", ".", "j", "s">>
N_readme == <<"R", "E", "A", "D", "M", "E", ".", "m", "d">>
N_app == <<"a", "p", "p", ".", "j", "s">>
N_styles == <<"s", "t", "y", "l", "e", "s", ".", "c", "s", "s">>
N_components == <<"c", "o", "m", "p", "o", "n", "e", "n", "t", "s">>
N_public == <<"p", "u", "b", "l", "i", "c">>
N_html == <<"i", "n", "d", "e", "x", ".", "h", "t", "m", "l">>
N_package == <<"p", "a", "c", "k", "a", "g", "e", ".", "j", "s", "o", "n">>

P_src == <<Slash>> \o N_src
P_index == P_src \o <<Slash>> \o N_index
P_readme == <<Slash>> \o N_readme

IndexJsText == <<"// Welcome to your web-based IDE!\nconsole.log('Hello, World!');">>
ReadmeText == <<"# My Web Project\n\nA sample web development project. ...">>
DbIndexJsText == <<"// Main application entry point\nimport express from 'express'; ...">>
AppJsText == <<"// Application configuration\nexport default class App { ... }">>
StylesText == <<"/* Global styles */\nbody { ... }\n\n.container { ... }">>
HtmlText == <<"<!DOCTYPE html>\n<html> ... </html>">>
PackageText == <<"{\n  name: my-web-project, ... }">>
DbReadmeText == <<"# My Web Project\n\nA sample web development project created with Cursor IDE. ...">>

\* MemoryStorage.initializeDefaultProject: four records, in order, each
\* under a fresh random id
DefaultProject(firstId, now) ==
    << File(firstId, N_project, Root, None, TRUE, NULL, now),
       File(firstId + 1, N_src, P_src, None, TRUE, Root, now),
       File(firstId + 2, N_index, P_index, Some(IndexJsText), FALSE, P_src, now),
       File(firstId + 3, N_readme, P_readme, Some(ReadmeText), FALSE, Root, now) >>

\* DatabaseStorage.initializeDefaultProject: the ten rows inserted into an
\* empty table, in order
DbDefaultProject(firstId, now) ==
    << File(firstId, N_project, Root, None, TRUE, NULL, now),
       File(firstId + 1, N_src, P_src, None, TRUE, Root, now),
       File(firstId + 2, N_index, P_index, Some(DbIndexJsText), FALSE, P_src, now),
       File(firstId + 3, N_app, P_src \o <<Slash>> \o N_app,
            Some(AppJsText), FALSE, P_src, now),
       File(firstId + 4, N_styles, P_src \o <<Slash>> \o N_styles,
            Some(StylesText), FALSE, P_src, now),
       File(firstId + 5, N_components, <<Slash>> \o N_components, None, TRUE, Root, now),
       File(firstId + 6, N_public, <<Slash>> \o N_public, None, TRUE, Root, now),
       File(firstId + 7, N_html, <<Slash>> \o N_html, Some(HtmlText), FALSE, Root, now),
       File(firstId + 8, N_package, <<Slash>> \o N_package,
            Some(PackageText), FALSE, Root, now),
       File(firstId + 9, N_readme, P_readme, Some(DbReadmeText), FALSE, Root, now) >>

\* this.files.get(filePath): <<>> for undefined, <<file>> for a record
getFile(m, filePath) == IF MapHas(m, filePath) THEN <<MapGet(m, filePath)>> ELSE <<>>

createFile(m, fileData, id, now) ==
    LET file == File(id, fileData.name, fileData.path,
                     ContentOrNull(fileData.content), fileData.isDirectory,
                     fileData.parentPath, now)
    IN  [files |-> MapSet(m, file.path, file), result |-> file]

\* the child filter shared by deleteFile and renameFile
IsChildOf(f, dirPath) ==
    \/ f.parentPath = dirPath
    \/ StartsWith(f.path, dirPath \o <<Slash>>)

deleteFile(m, filePath) ==
    IF ~MapHas(m, filePath) THEN [files |-> m, result |-> FALSE]
    ELSE LET file == MapGet(m, filePath)
             m1 == IF file.isDirectory
                   THEN SelectSeq(m, LAMBDA f : ~IsChildOf(f, filePath))
                   ELSE m
         IN  [files |-> MapDelete(m1, filePath), result |-> MapHas(m1, filePath)]

\* one turn of the loop over the children of a renamed directory
RenameChild(m, child, oldPath, newPath, now) ==
    LET newChildPath == Replace(child.path, oldPath, newPath)
        newParentPath == IF child.parentPath = oldPath THEN newPath
                         ELSE IF child.parentPath = NULL THEN NULL
                         ELSE Replace(child.parentPath, oldPath, newPath)
        updatedChild == [child EXCEPT !.path = newChildPath,
                                      !.parentPath = newParentPath,
                                      !.updatedAt = now]
    IN  MapSet(MapDelete(m, child.path), newChildPath, updatedChild)

RECURSIVE RenameChildren(_, _, _, _, _)
RenameChildren(m, children, oldPath, newPath, now) ==
    IF children = <<>> THEN m
    ELSE RenameChildren(RenameChild(m, Head(children), oldPath, newPath, now),
                        Tail(children), oldPath, newPath, now)

renameFile(m, oldPath, newPath, now) ==
    IF ~MapHas(m, oldPath) THEN [files |-> m, found |-> FALSE]
    ELSE LET file == MapGet(m, oldPath)
             updatedFile == [file EXCEPT !.name = basename(newPath),
                                         !.path = newPath,
                                         !.updatedAt = now]
             m2 == MapSet(MapDelete(m, oldPath), newPath, updatedFile)
             children == SelectSeq(m2, LAMBDA f : IsChildOf(f, oldPath))
         IN  [files |-> IF file.isDirectory
                        THEN RenameChildren(m2, children, oldPath, newPath, now)
                        ELSE m2,
              found |-> TRUE, result |-> updatedFile]

updateFile_FreshRecord(m, filePath, updates, now) ==
    IF ~MapHas(m, filePath) THEN [files |-> m, found |-> FALSE]
    ELSE LET existingFile == MapGet(m, filePath)
             updatedFile ==
                 File(existingFile.id,
                      IF updates.hasName THEN updates.name ELSE existingFile.name,
                      existingFile.path,
                      IF updates.hasContent THEN updates.content ELSE existingFile.content,
                      FALSE, existingFile.parentPath, now)
         IN  [files |-> MapSet(m, filePath, updatedFile),
              found |-> TRUE, result |-> updatedFile]

updateFile(m, filePath, updates, now) ==
    IF ~MapHas(m, filePath) THEN [files |-> m, found |-> FALSE]
    ELSE LET existingFile == MapGet(m, filePath)
             updatedFile ==
                 [existingFile EXCEPT
                    !.name = IF updates.hasName THEN updates.name ELSE @,
                    !.content = IF updates.hasContent THEN updates.content ELSE @,
                    !.updatedAt = now]
         IN  [files |-> MapSet(m, filePath, updatedFile),
              found |-> TRUE, result |-> updatedFile]

\* a.localeCompare(b) < 0, = 0, > 0 as -1, 0, 1.  The collation puts
\* punctuation before letters and compares letters without regard to case
\* first; between strings that differ in case only, lower case goes first.
Collation == <<"_", "-", ".", "/", "\\", "a", "b", "c", "d", "e", "f", "g", "h",
               "i", "j", "k", "l", "m", "n", "o", "p", "r", "s", "t", "u", "v",
               "w", "x", "y">>
UpperCase == {"A", "D", "E", "M", "R"}
ToLower(c) ==
    CASE c = "A" -> "a" [] c = "D" -> "d" [] c = "E" -> "e"
      [] c = "M" -> "m" [] c = "R" -> "r" [] OTHER -> c
Primary(c) == CHOOSE i \in 1..Len(Collation) : Collation[i] = ToLower(c)

RECURSIVE ComparePrimary(_, _)
ComparePrimary(a, b) ==
    IF a = <<>> /\ b = <<>> THEN 0
    ELSE IF a = <<>> THEN -1
    ELSE IF b = <<>> THEN 1
    ELSE IF Primary(a[1]) < Primary(b[1]) THEN -1
    ELSE IF Primary(a[1]) > Primary(b[1]) THEN 1
    ELSE ComparePrimary(Tail(a), Tail(b))

RECURSIVE CompareCase(_, _)
CompareCase(a, b) ==
    IF a = <<>> \/ b = <<>> THEN 0
    ELSE IF a[1] \notin UpperCase /\ b[1] \in UpperCase THEN -1
    ELSE IF a[1] \in UpperCase /\ b[1] \notin UpperCase THEN 1
    ELSE CompareCase(Tail(a), Tail(b))

localeCompare(a, b) ==
    IF ComparePrimary(a, b) # 0 THEN ComparePrimary(a, b) ELSE CompareCase(a, b)

compareFiles_NameOnly(a, b) == localeCompare(a.name, b.name)

\* the comparator of getFiles: directories first, then by name
compareFiles(a, b) ==
    IF a.isDirectory /\ ~b.isDirectory THEN -1
    ELSE IF ~a.isDirectory /\ b.isDirectory THEN 1
    ELSE localeCompare(a.name, b.name)

\* Array.prototype.sort is stable: equal elements keep their Map order
RECURSIVE InsertSorted(_, _)
InsertSorted(sorted, f) ==
    IF sorted = <<>> THEN <<f>>
    ELSE IF compareFiles(sorted[Len(sorted)], f) <= 0 THEN Append(sorted, f)
    ELSE Append(InsertSorted(SubSeq(sorted, 1, Len(sorted) - 1), f),
                sorted[Len(sorted)])

RECURSIVE SortFiles(_)
SortFiles(m) ==
    IF m = <<>> THEN <<>>
    ELSE InsertSorted(SortFiles(SubSeq(m, 1, Len(m) - 1)), m[Len(m)])

getFiles(m) == SortFiles(m)

\* ---------------------------------------------------- DatabaseStorage
\* The exported storage object as one value st: st.fallbackStorage and
\* st.files (the MemoryStorage instance, once installed), st.db (the rows
\* of table files) and st.nextId (the next fresh random id).  The database
\* answers every statement; a statement fails only by violating the
\* unique constraint on path (schema.ts 9).

\* PostgreSQL's  s LIKE pattern  with no ESCAPE clause: "%" matches any
\* run of characters, "_" any one character, and a backslash makes the
\* character after it stand for itself
RECURSIVE Like(_, _)
Like(s, pattern) ==
    IF pattern = <<>> THEN s = <<>>
    ELSE IF pattern[1] = "%"
    THEN \E k \in 0..Len(s) : Like(SubSeq(s, k + 1, Len(s)), Tail(pattern))
    ELSE IF pattern[1] = "_"
    THEN s # <<>> /\ Like(Tail(s), Tail(pattern))
    ELSE IF pattern[1] = "\\" /\ Len(pattern) >= 2
    THEN s # <<>> /\ s[1] = pattern[2] /\ Like(Tail(s), SubSeq(pattern, 3, Len(pattern)))
    ELSE s # <<>> /\ s[1] = pattern[1] /\ Like(Tail(s), Tail(pattern))

\* or(eq(files.parentPath, dirPath), like(files.path, dirPath + "/%"))
DbIsChildOf(row, dirPath) ==
    \/ row.parentPath = dirPath
    \/ Like(row.path, dirPath \o <<Slash, "%">>)

\* this.fallbackStorage = new MemoryStorage()
InstallFallback(st, now) ==
    [st EXCEPT !.fallbackStorage = TRUE,
               !.files = DefaultProject(st.nextId, now),
               !.nextId = @ + Len(DefaultProject(st.nextId, now))]

\* the records a caller of the store can see
Records(st) == IF st.fallbackStorage THEN st.files ELSE st.db

\* select * from files, sorted as the fallback sorts its Map values
storage_getFiles(st) ==
    IF st.fallbackStorage THEN getFiles(st.files) ELSE SortFiles(st.db)

\* select ... where path = filePath limit 1 (path is unique), or the
\* fallback's Map.get
storage_getFile(st, filePath) == getFile(Records(st), filePath)

FallbackCreateFile(st, fileData, now) ==
    LET r == createFile(st.files, fileData, st.nextId, now)
    IN  [storage |-> [st EXCEPT !.files = r.files, !.nextId = @ + 1],
         result |-> r.result]

storage_createFile(st, fileData, now) ==
    IF st.fallbackStorage THEN FallbackCreateFile(st, fileData, now)
    ELSE IF MapHas(st.db, fileData.path)    \* the insert throws
    THEN FallbackCreateFile(InstallFallback(st, now), fileData, now)
    ELSE LET row == File(st.nextId, fileData.name, fileData.path,
                         ContentOrNull(fileData.content), fileData.isDirectory,
                         fileData.parentPath, now)
         IN  [storage |-> [st EXCEPT !.db = Append(@, row), !.nextId = @ + 1],
              result |-> row]

\* update ... set {...updates, updatedAt} where path = filePath returning:
\* the row keeps its place and its other columns, as the Map entry does
storage_updateFile(st, filePath, updates, now) ==
    LET r == updateFile(Records(st), filePath, updates, now)
    IN  [storage |-> IF st.fallbackStorage THEN [st EXCEPT !.files = r.files]
                     ELSE [st EXCEPT !.db = r.files],
         result |-> IF r.found THEN <<r.result>> ELSE <<>>]

FallbackDeleteFile(st, filePath) ==
    LET r == deleteFile(st.files, filePath)
    IN  [storage |-> [st EXCEPT !.files = r.files], result |-> r.result]

storage_deleteFile(st, filePath) ==
    IF st.fallbackStorage THEN FallbackDeleteFile(st, filePath)
    ELSE IF ~MapHas(st.db, filePath) THEN [storage |-> st, result |-> FALSE]
    ELSE LET file == MapGet(st.db, filePath)
             rows1 == IF file.isDirectory
                      THEN SelectSeq(st.db, LAMBDA row : ~DbIsChildOf(row, filePath))
                      ELSE st.db
         IN  [storage |-> [st EXCEPT !.db = MapDelete(rows1, filePath)],
              result |-> MapHas(rows1, filePath)]

\* one turn of the loop over the selected children:
\* update ... set path, parentPath, updatedAt where id = child.id
DbRenameChild(rows, child, oldPath, newPath, now) ==
    LET newChildPath == Replace(child.path, oldPath, newPath)
        newParentPath == IF child.parentPath = oldPath THEN newPath
                         ELSE IF child.parentPath = NULL THEN NULL
                         ELSE Replace(child.parentPath, oldPath, newPath)
        i == CHOOSE i \in 1..Len(rows) : rows[i].id = child.id
        clash == \E j \in 1..Len(rows) : j # i /\ rows[j].path = newChildPath
    IN  [ok |-> ~clash,
         rows |-> IF clash THEN rows
                  ELSE [rows EXCEPT ![i] = [@ EXCEPT !.path = newChildPath,
                                                     !.parentPath = newParentPath,
                                                     !.updatedAt = now]]]

RECURSIVE DbRenameChildren(_, _, _, _, _)
DbRenameChildren(rows, children, oldPath, newPath, now) ==
    IF children = <<>> THEN [ok |-> TRUE, rows |-> rows]
    ELSE LET r == DbRenameChild(rows, Head(children), oldPath, newPath, now)
         IN  IF ~r.ok THEN r
             ELSE DbRenameChildren(r.rows, Tail(children), oldPath, newPath, now)

FallbackRenameFile(st, oldPath, newPath, now) ==
    LET r == renameFile(st.files, oldPath, newPath, now)
    IN  [storage |-> [st EXCEPT !.files = r.files],
         result |-> IF r.found THEN <<r.result>> ELSE <<>>]

\* A statement that would give two rows the same path throws, and the catch
\* block hands the call to a new MemoryStorage.
storage_renameFile(st, oldPath, newPath, now) ==
    IF st.fallbackStorage THEN FallbackRenameFile(st, oldPath, newPath, now)
    ELSE IF ~MapHas(st.db, oldPath) THEN [storage |-> st, result |-> <<>>]
    ELSE LET file == MapGet(st.db, oldPath)
             clash == newPath # oldPath /\ MapHas(st.db, newPath)
             updatedFile == [file EXCEPT !.name = basename(newPath),
                                         !.path = newPath,
                                         !.updatedAt = now]
             rows1 == [st.db EXCEPT ![MapIndex(st.db, oldPath)] = updatedFile]
             children == SelectSeq(rows1, LAMBDA row : DbIsChildOf(row, oldPath))
             loop == IF file.isDirectory
                     THEN DbRenameChildren(rows1, children, oldPath, newPath, now)
                     ELSE [ok |-> TRUE, rows |-> rows1]
         IN  IF clash \/ ~loop.ok
             THEN FallbackRenameFile(InstallFallback(st, now), oldPath, newPath, now)
             ELSE [storage |-> [st EXCEPT !.db = loop.rows], result |-> <<updatedFile>>]

\* ------------------------------------------------------------- search
\* s.toLowerCase()
toLowerCase(s) == [i \in DOMAIN s |-> ToLower(s[i])]

\* s.includes(q)
includes(s, q) ==
    \E k \in 0..(Len(s) - Len(q)) : SubSeq(s, k + 1, k + Len(q)) = q

\* MemoryStorage.searchFiles: name or content holds the query, letters
\* compared without regard to case; null and "" content are skipped
searchFiles(m, query) ==
    LET lowerQuery == toLowerCase(query)
    IN  SelectSeq(m, LAMBDA file :
            \/ includes(toLowerCase(file.name), lowerQuery)
            \/ /\ file.content # None
               /\ file.content # Some(<<>>)
               /\ includes(toLowerCase(file.content[1]), lowerQuery))

\* DatabaseStorage.searchFiles: where name like '%query%' or content like
\* '%query%', the query put into the pattern as it came; a null content is
\* like nothing
storage_searchFiles(st, query) ==
    IF st.fallbackStorage THEN searchFiles(st.files, query)
    ELSE SelectSeq(st.db, LAMBDA row :
            \/ Like(row.name, <<"%">> \o query \o <<"%">>)
            \/ /\ row.content # None
               /\ Like(row.content[1], <<"%">> \o query \o <<"%">>))

\* ---------------------------------- DatabaseStorage calls, await by await
\* A call of a DatabaseStorage method runs up to its first await when it is
\* made, and from one await to the next each time the database answers the
\* statement it is waiting for.  The database answers a statement either
\* with its result or, when it cannot be reached, with an error; a statement
\* that would give two rows one path is answered with an error as well.
Idle == [op |-> "idle"]
NoRequest == [route |-> "none"]

\* a method without the test of this.fallbackStorage at its entry
UsesFallback_Never(st) == FALSE

\* if (this.fallbackStorage) return this.fallbackStorage.method(...)
UsesFallback(st) == st.fallbackStorage

\* the first statement each method awaits
FirstAwait(op) ==
    CASE op = "getFiles" -> "select"
      [] op = "getFile" -> "select"
      [] op = "createFile" -> "insert"
      [] op = "updateFile" -> "update"
      [] op = "deleteFile" -> "get"
      [] op = "renameFile" -> "get"

\* this.fallbackStorage.method(...): MemoryStorage's methods have no await
\* inside, so the whole method runs at the moment it is called
ServeFallback(st, req, now) ==
    CASE req.op = "getFiles" -> [storage |-> st, result |-> getFiles(st.files)]
      [] req.op = "getFile" ->
            [storage |-> st, result |-> getFile(st.files, req.filePath)]
      [] req.op = "createFile" -> FallbackCreateFile(st, req.fileData, now)
      [] req.op = "updateFile" ->
            storage_updateFile(st, req.filePath, req.updates, now)
      [] req.op = "deleteFile" -> FallbackDeleteFile(st, req.filePath)
      [] req.op = "renameFile" ->
            FallbackRenameFile(st, req.oldPath, req.newPath, now)

\* what one run of a call leaves: the storage, the call's position (Idle
\* once its promise has resolved), the value it resolved to with the way it
\* was served and the times of call and return, and the number of
\* MemoryStorage objects it constructed
Return(st, c, value, servedBy, cause, constructed) ==
    [storage |-> st, call |-> Idle,
     response |-> [route |-> c.op, req |-> c.req, body |-> value,
                   servedBy |-> servedBy, cause |-> cause,
                   fallbackAtCall |-> c.fallbackAtCall,
                   calledAt |-> c.calledAt, returnedAt |-> 0],
     constructed |-> constructed]

Await(st, c, constructed) ==
    [storage |-> st, call |-> c, response |-> NoRequest, constructed |-> constructed]

ReturnFallback(c, r, cause, constructed) ==
    Return(r.storage, c, r.result, "fallback", cause, constructed)

\* the catch block of a method: if (!this.fallbackStorage)
\* this.fallbackStorage = new MemoryStorage(); return
\* this.fallbackStorage.method(...)
Catch(st, c, cause, now) ==
    ReturnFallback(c,
        ServeFallback(IF st.fallbackStorage THEN st ELSE InstallFallback(st, now),
                      c.req, now),
        cause, IF st.fallbackStorage THEN 0 ELSE 1)

\* a method is called
Call(st, req, now) ==
    IF UsesFallback(st)
    THEN ReturnFallback([op |-> req.op, req |-> req, calledAt |-> now,
                          fallbackAtCall |-> st.fallbackStorage],
                         ServeFallback(st, req, now), "none", 0)
    ELSE Await(st, [op |-> req.op, req |-> req, pc |-> FirstAwait(req.op),
                    calledAt |-> now, fallbackAtCall |-> st.fallbackStorage,
                    file |-> <<>>, updatedFile |-> <<>>, children |-> <<>>], 0)

\* const file = await this.getFile(path) inside deleteFile / renameFile:
\* getFile's own catch block has replaced the error by the fallback's
\* answer, and the method goes on with its next statement on the database
AfterGetFile(st, c, file, cause, constructed) ==
    IF file = <<>>
    THEN Return(st, c, IF c.op = "deleteFile" THEN FALSE ELSE <<>>,
                 IF cause = "none" THEN "database" ELSE "fallback", cause, constructed)
    ELSE Await(st, [c EXCEPT !.file = file,
                             !.pc = IF c.op = "deleteFile" /\ file[1].isDirectory
                                    THEN "children" ELSE "self"],
               constructed)

NestedGetFile(st, c, ok, now) ==
    IF ok THEN AfterGetFile(st, c, getFile(st.db, c.req.filePath), "none", 0)
    ELSE IF st.fallbackStorage
    THEN AfterGetFile(st, c, getFile(st.files, c.req.filePath), "unavailable", 0)
    ELSE AfterGetFile(InstallFallback(st, now), c,
                      getFile(InstallFallback(st, now).files, c.req.filePath),
                      "unavailable", 1)

\* update ... set name, path, updatedAt where path = oldPath returning
RenameSelf(st, c, now) ==
    IF ~MapHas(st.db, c.req.oldPath)
    THEN [storage |-> st, updatedFile |-> <<>>]
    ELSE [storage |-> [st EXCEPT !.db[MapIndex(st.db, c.req.oldPath)] =
                          [@ EXCEPT !.name = basename(c.req.newPath),
                                    !.path = c.req.newPath,
                                    !.updatedAt = now]],
          updatedFile |-> <<[MapGet(st.db, c.req.oldPath)
                               EXCEPT !.name = basename(c.req.newPath),
                                      !.path = c.req.newPath,
                                      !.updatedAt = now]>>]

AfterRenameSelf(c, r) ==
    IF c.file[1].isDirectory
    THEN Await(r.storage, [c EXCEPT !.updatedFile = r.updatedFile, !.pc = "select"], 0)
    ELSE Return(r.storage, c, r.updatedFile, "database", "none", 0)

\* one turn of the loop over the children selected earlier; a child whose
\* row is gone by now is updated in no row
AfterRenameChild(st, c, r) ==
    IF Len(c.children) = 1
    THEN Return([st EXCEPT !.db = r.rows], c, c.updatedFile, "database", "none", 0)
    ELSE Await([st EXCEPT !.db = r.rows], [c EXCEPT !.children = Tail(@)], 0)

RenameNextChild(st, c, now) ==
    IF \E i \in 1..Len(st.db) : st.db[i].id = Head(c.children).id
    THEN DbRenameChild(st.db, Head(c.children), c.req.oldPath, c.req.newPath, now)
    ELSE [ok |-> TRUE, rows |-> st.db]

AfterSelectChildren(st, c, children) ==
    IF children = <<>>
    THEN Return(st, c, c.updatedFile, "database", "none", 0)
    ELSE Await(st, [c EXCEPT !.children = children, !.pc = "child"], 0)

InsertRow(st, fileData, now) ==
    File(st.nextId, fileData.name, fileData.path, ContentOrNull(fileData.content),
         fileData.isDirectory, fileData.parentPath, now)

UpdateRow(st, c, r) ==
    Return([st EXCEPT !.db = r.files], c,
            IF r.found THEN <<r.result>> ELSE <<>>, "database", "none", 0)

\* the database answers the statement call c is waiting for: with its
\* result when ok, with an error otherwise
Answer(st, c, ok, now) ==
    IF c.pc = "get" THEN NestedGetFile(st, c, ok, now)
    ELSE IF ~ok THEN Catch(st, c, "unavailable", now)
    ELSE CASE c.op = "getFiles" ->
                Return(st, c, SortFiles(st.db), "database", "none", 0)
           [] c.op = "getFile" ->
                Return(st, c, getFile(st.db, c.req.filePath), "database", "none", 0)
           [] c.op = "createFile" ->
                IF MapHas(st.db, c.req.fileData.path)
                THEN Catch(st, c, "constraint", now)
                ELSE Return([st EXCEPT !.db = Append(@, InsertRow(st, c.req.fileData, now)),
                                        !.nextId = @ + 1],
                             c, InsertRow(st, c.req.fileData, now),
                             "database", "none", 0)
           [] c.op = "updateFile" ->
                UpdateRow(st, c, updateFile(st.db, c.req.filePath, c.req.updates, now))
           [] c.op = "deleteFile" /\ c.pc = "children" ->
                Await([st EXCEPT !.db = SelectSeq(@, LAMBDA row :
                                            ~DbIsChildOf(row, c.req.filePath))],
                      [c EXCEPT !.pc = "self"], 0)
           [] c.op = "deleteFile" /\ c.pc = "self" ->
                Return([st EXCEPT !.db = MapDelete(@, c.req.filePath)], c,
                        MapHas(st.db, c.req.filePath), "database", "none", 0)
           [] c.op = "renameFile" /\ c.pc = "self" ->
                IF /\ MapHas(st.db, c.req.oldPath)
                   /\ c.req.newPath # c.req.oldPath
                   /\ MapHas(st.db, c.req.newPath)
                THEN Catch(st, c, "constraint", now)
                ELSE AfterRenameSelf(c, RenameSelf(st, c, now))
           [] c.op = "renameFile" /\ c.pc = "select" ->
                AfterSelectChildren(st, c,
                    SelectSeq(st.db, LAMBDA row : DbIsChildOf(row, c.req.oldPath)))
           [] c.op = "renameFile" /\ c.pc = "child" ->
                IF RenameNextChild(st, c, now).ok
                THEN AfterRenameChild(st, c, RenameNextChild(st, c, now))
                ELSE Catch(st, c, "constraint", now)

\* ------------------------------------------------------- virtual shell
\* command words and flag tokens, spelled as the strings they are
W_pwd == <<"p", "w", "d">>
W_ls == <<"l", "s">>
W_cd == <<"c", "d">>
W_cat == <<"c", "a", "t">>
W_touch == <<"t", "o", "u", "c", "h">>
W_mkdir == <<"m", "k", "d", "i", "r">>
W_rm == <<"r", "m">>
W_mv == <<"m", "v">>
W_echo == <<"e", "c", "h", "o">>
W_clear == <<"c", "l", "e", "a", "r">>
W_help == <<"h", "e", "l", "p">>
DotDot == <<".", ".">>
DotDotSlash == <<".", ".", "/">>
FlagR == <<"-", "r">>
FlagRF == <<"-", "r", "f">>
NL == <<"\n">>

\* arg.startsWith('/') ? arg : cwd === '/' ? '/' + arg : cwd + '/' + arg
Resolve(cwd, arg) ==
    IF StartsWith(arg, <<Slash>>) THEN arg
    ELSE IF cwd = Root THEN <<Slash>> \o arg
    ELSE cwd \o <<Slash>> \o arg

\* cmdArgs[0].split('/').pop() || cmdArgs[0]
DeriveName(arg) == IF SplitPop(arg) = <<>> THEN arg ELSE SplitPop(arg)

\* the parentPath that touch and mkdir derive for a new record
DeriveParent(newPath, arg) ==
    LET fileName == DeriveName(arg)
        cut == Replace(newPath, <<Slash>> \o fileName, <<>>)
    IN  IF newPath = <<Slash>> \o fileName THEN NULL
        ELSE IF cut = <<>> THEN Root ELSE cut

Result(cmd, out, err, code, newCwd) ==
    [command |-> cmd, stdout |-> out, stderr |-> err, exitCode |-> code,
     newCwd |-> newCwd]

\* a call that leaves the store as it is
Pure(st, cmd, out, err, code) ==
    [storage |-> st, result |-> Result(cmd, out, err, code, NULL)]

\* s1 + sep + s2 + ... (Array.join)
RECURSIVE Join(_, _)
Join(parts, sep) ==
    IF parts = <<>> THEN <<>>
    ELSE IF Len(parts) = 1 THEN parts[1]
    ELSE parts[1] \o sep \o Join(Tail(parts), sep)

cdTarget(cwd, targetDir) ==
    IF targetDir = Root THEN Root
    ELSE IF targetDir = DotDot \/ targetDir = DotDotSlash
         THEN IF cwd = Root THEN Root
              ELSE LET parts == Segments(cwd)
                       popped == SubSeq(parts, 1, Len(parts) - 1)
                   IN  IF popped = <<>> THEN Root ELSE JoinAbs(popped)
    ELSE IF StartsWith(targetDir, <<Slash>>) THEN targetDir
    ELSE IF cwd = Root THEN <<Slash>> \o targetDir
    ELSE cwd \o <<Slash>> \o targetDir

execCd_NoCheck(st, cwd, cmd, cmdArgs) ==
    LET targetDir == IF cmdArgs = <<>> THEN Root ELSE cmdArgs[1]
        newDirPath == cdTarget(cwd, targetDir)
    IN  [storage |-> st, result |-> Result(cmd, <<>>, <<>>, 0, newDirPath)]

execCd(st, cwd, cmd, cmdArgs) ==
    LET targetDir == IF cmdArgs = <<>> THEN Root ELSE cmdArgs[1]
        newDirPath == cdTarget(cwd, targetDir)
        dirExists == storage_getFile(st, newDirPath)
    IN  IF dirExists = <<>> \/ ~dirExists[1].isDirectory
        THEN Pure(st, cmd, <<>>,
                  <<"cd: ">> \o targetDir \o <<": No such directory\n">>, 1)
        ELSE [storage |-> st, result |-> Result(cmd, <<>>, <<>>, 0, newDirPath)]

execCat(st, cwd, cmd, cmdArgs) ==
    IF cmdArgs = <<>>
    THEN Pure(st, cmd, <<>>, <<"cat: missing file operand\n">>, 1)
    ELSE LET filePath == Resolve(cwd, cmdArgs[1])
             file == storage_getFile(st, filePath)
         IN  IF file = <<>>
             THEN Pure(st, cmd, <<>>,
                       <<"cat: ">> \o cmdArgs[1] \o <<": No such file or directory\n">>, 1)
             ELSE IF file[1].isDirectory
             THEN Pure(st, cmd, <<>>,
                       <<"cat: ">> \o cmdArgs[1] \o <<": Is a directory\n">>, 1)
             ELSE Pure(st, cmd,
                       (IF file[1].content = None THEN <<>> ELSE file[1].content[1]) \o NL,
                       <<>>, 0)

\* touch without its test for an existing record
execTouch_AlwaysCreates(st, cwd, cmd, cmdArgs, now) ==
    IF cmdArgs = <<>>
    THEN Pure(st, cmd, <<>>, <<"touch: missing file operand\n">>, 1)
    ELSE [storage |-> storage_createFile(st,
                        [name |-> DeriveName(cmdArgs[1]),
                         path |-> Resolve(cwd, cmdArgs[1]),
                         content |-> Some(<<>>),
                         isDirectory |-> FALSE,
                         parentPath |-> DeriveParent(Resolve(cwd, cmdArgs[1]), cmdArgs[1])],
                        now).storage,
          result |-> Result(cmd, <<>>, <<>>, 0, NULL)]

execTouch(st, cwd, cmd, cmdArgs, now) ==
    IF cmdArgs = <<>>
    THEN Pure(st, cmd, <<>>, <<"touch: missing file operand\n">>, 1)
    ELSE LET newFilePath == Resolve(cwd, cmdArgs[1])
         IN  IF storage_getFile(st, newFilePath) # <<>>
             THEN Pure(st, cmd, <<>>, <<>>, 0)
             ELSE [storage |-> storage_createFile(st,
                                [name |-> DeriveName(cmdArgs[1]),
                                 path |-> newFilePath,
                                 content |-> Some(<<>>),
                                 isDirectory |-> FALSE,
                                 parentPath |-> DeriveParent(newFilePath, cmdArgs[1])],
                                now).storage,
                   result |-> Result(cmd, <<>>, <<>>, 0, NULL)]

execMkdir_NoExistsTest(st, cwd, cmd, cmdArgs, now) ==
    IF cmdArgs = <<>>
    THEN Pure(st, cmd, <<>>, <<"mkdir: missing operand\n">>, 1)
    ELSE LET dirPath == Resolve(cwd, cmdArgs[1])
         IN  [storage |-> storage_createFile(st,
                                [name |-> DeriveName(cmdArgs[1]),
                                 path |-> dirPath,
                                 content |-> None,
                                 isDirectory |-> TRUE,
                                 parentPath |-> DeriveParent(dirPath, cmdArgs[1])],
                                now).storage,
              result |-> Result(cmd, <<>>, <<>>, 0, NULL)]

execMkdir(st, cwd, cmd, cmdArgs, now) ==
    IF cmdArgs = <<>>
    THEN Pure(st, cmd, <<>>, <<"mkdir: missing operand\n">>, 1)
    ELSE LET dirPath == Resolve(cwd, cmdArgs[1])
         IN  IF storage_getFile(st, dirPath) # <<>>
             THEN Pure(st, cmd, <<>>,
                       <<"mkdir: cannot create directory '">> \o cmdArgs[1]
                           \o <<"': File exists\n">>, 1)
             ELSE [storage |-> storage_createFile(st,
                                [name |-> DeriveName(cmdArgs[1]),
                                 path |-> dirPath,
                                 content |-> None,
                                 isDirectory |-> TRUE,
                                 parentPath |-> DeriveParent(dirPath, cmdArgs[1])],
                                now).storage,
                   result |-> Result(cmd, <<>>, <<>>, 0, NULL)]

\* cmdArgs.includes(tok)
Includes(cmdArgs, tok) == \E i \in 1..Len(cmdArgs) : cmdArgs[i] = tok

\* (the test with the negation of the -r check lost)
rmAllowed_LostNegation(file, cmdArgs) ==
    ~(file.isDirectory /\ ~Includes(cmdArgs, FlagRF) /\ Includes(cmdArgs, FlagR))

\* the test that lets rm go on to deleteFile (negation of routes 761)
rmAllowed(file, cmdArgs) ==
    ~(file.isDirectory /\ ~Includes(cmdArgs, FlagRF) /\ ~Includes(cmdArgs, FlagR))

execRm(st, cwd, cmd, cmdArgs) ==
    IF cmdArgs = <<>>
    THEN Pure(st, cmd, <<>>, <<"rm: missing operand\n">>, 1)
    ELSE LET rmPath == Resolve(cwd, cmdArgs[1])
             fileToDelete == storage_getFile(st, rmPath)
         IN  IF fileToDelete = <<>>
             THEN Pure(st, cmd, <<>>,
                       <<"rm: cannot remove '">> \o cmdArgs[1]
                           \o <<"': No such file or directory\n">>, 1)
             ELSE IF ~rmAllowed(fileToDelete[1], cmdArgs)
             THEN Pure(st, cmd, <<>>,
                       <<"rm: cannot remove '">> \o cmdArgs[1]
                           \o <<"': Is a directory\n">>, 1)
             ELSE [storage |-> storage_deleteFile(st, rmPath).storage,
                   result |-> Result(cmd, <<>>, <<>>, 0, NULL)]

execMv(st, cwd, cmd, cmdArgs, now) ==
    IF Len(cmdArgs) < 2
    THEN Pure(st, cmd, <<>>, <<"mv: missing destination file operand\n">>, 1)
    ELSE LET oldMvPath == Resolve(cwd, cmdArgs[1])
             newMvPath == Resolve(cwd, cmdArgs[2])
         IN  IF storage_getFile(st, oldMvPath) = <<>>
             THEN Pure(st, cmd, <<>>,
                       <<"mv: cannot stat '">> \o cmdArgs[1]
                           \o <<"': No such file or directory\n">>, 1)
             ELSE [storage |-> storage_renameFile(st, oldMvPath, newMvPath, now).storage,
                   result |-> Result(cmd, <<>>, <<>>, 0, NULL)]

execLs(st, cwd, cmd) ==
    LET all == storage_getFiles(st)
        targetParentPath == IF cwd = Root THEN NULL ELSE cwd
        currentDirFiles ==
            SelectSeq(all, LAMBDA f : \/ f.parentPath = targetParentPath
                                      \/ (cwd = Root /\ f.parentPath = Root))
        names == [i \in 1..Len(currentDirFiles) |->
                    IF currentDirFiles[i].isDirectory
                    THEN currentDirFiles[i].name \o <<Slash>>
                    ELSE currentDirFiles[i].name]
    IN  Pure(st, cmd, Join(names, <<" ", " ">>) \o NL, <<>>, 0)

HelpText == <<"Available commands: ...\n">>
ClearSequence == <<"ESC[2J", "ESC[H">>

commandNotFound_Silent(st, cmd) == Pure(st, cmd, <<>>, <<>>, 0)

\* default: the command word is none of the cases
commandNotFound(st, cmd) ==
    Pure(st, cmd, <<>>, cmd \o <<": command not found\n">>, 127)

\* command.split(' ').filter(arg => arg.length > 0) has been applied: args is
\* the list of the non-empty tokens of the command line
executeVirtualCommand(st, cwd, args, now) ==
    LET cmd == IF args = <<>> THEN <<"undefined">> ELSE args[1]
        cmdArgs == IF args = <<>> THEN <<>> ELSE Tail(args)
    IN  CASE cmd = W_pwd -> Pure(st, cmd, cwd \o NL, <<>>, 0)
          [] cmd = W_ls -> execLs(st, cwd, cmd)
          [] cmd = W_cd -> execCd(st, cwd, cmd, cmdArgs)
          [] cmd = W_cat -> execCat(st, cwd, cmd, cmdArgs)
          [] cmd = W_touch -> execTouch(st, cwd, cmd, cmdArgs, now)
          [] cmd = W_mkdir -> execMkdir(st, cwd, cmd, cmdArgs, now)
          [] cmd = W_rm -> execRm(st, cwd, cmd, cmdArgs)
          [] cmd = W_mv -> execMv(st, cwd, cmd, cmdArgs, now)
          [] cmd = W_echo -> Pure(st, cmd, Join(cmdArgs, <<" ">>) \o NL, <<>>, 0)
          [] cmd = W_clear -> Pure(st, cmd, ClearSequence, <<>>, 0)
          [] cmd = W_help -> Pure(st, cmd, HelpText, <<>>, 0)
          [] OTHER -> commandNotFound(st, cmd)

\* ------------------------------------------------------------ inputs
P_a == <<"/", "a">>
P_src_a == <<"/", "s", "r", "c", "/", "a">>
P_src_a_b == <<"/", "s", "r", "c", "/", "a", "/", "b">>
P_slash_a == <<"/", "/", "a">>
N_a == <<"a">>
TextX == <<"x">>

\* request bodies of POST /api/files
FileSpecs ==
    { [name |-> N_a, path |-> P_a, content |-> None,
       isDirectory |-> TRUE, parentPath |-> NULL],
      [name |-> <<"b">>, path |-> P_src_a_b, content |-> Some(TextX),
       isDirectory |-> FALSE, parentPath |-> P_src_a],
      [name |-> <<"i", "n", "d", "e", "x", ".", "j", "s">>, path |-> P_index,
       content |-> Some(TextX), isDirectory |-> FALSE, parentPath |-> P_src],
      [name |-> <<"r", "o", "o", "t">>, path |-> Root, content |-> None,
       isDirectory |-> TRUE, parentPath |-> NULL] }

\* request bodies of PATCH /api/files/*
Updates ==
    { [hasName |-> FALSE, name |-> <<>>, hasContent |-> TRUE, content |-> Some(TextX)],
      [hasName |-> TRUE, name |-> N_a, hasContent |-> FALSE, content |-> None] }

\* paths named in the URLs and bodies of the file routes
RoutePaths == {Root, P_src, P_readme, P_a}
PatchPaths == {P_src, P_readme}
RenameTargets == {P_a, P_src_a}

SessionIds == {"s1"}

\* a request body without command, or with the command ""; the token list
\* of a command is never of this form
NoCommand == <<<<>>>>

\* command lines of the execute route, as token lists
CommandLines ==
    { <<W_pwd>>, <<W_ls>>, <<W_echo, N_a, N_src>>, <<W_clear>>, <<W_help>>,
      <<<<"f", "o", "o">>>>,
      <<W_cd>>, <<W_cd, Root>>, <<W_cd, DotDot>>, <<W_cd, N_src>>, <<W_cd, P_a>>, <<W_cd, P_readme>>,
      <<W_cat>>, <<W_cat, P_readme>>, <<W_cat, P_src>>,
      <<W_touch>>, <<W_touch, N_a>>, <<W_touch, P_src_a_b>>, <<W_touch, FlagR>>,
      <<W_touch, P_readme>>, <<W_touch, P_slash_a>>,
      <<W_mkdir>>, <<W_mkdir, N_a>>, <<W_mkdir, P_src>>, <<W_mkdir, Root>>,
      <<W_rm>>, <<W_rm, N_a>>, <<W_rm, P_src>>, <<W_rm, P_src, FlagR>>,
      <<W_rm, FlagR, P_src>>, <<W_rm, P_src, FlagRF>>,
      <<W_rm, Root, FlagR>>, <<W_rm, P_readme>>,
      <<W_mv, N_a>>, <<W_mv, P_src, P_a>>, <<W_mv, P_src, P_src_a>>,
      <<W_mv, P_readme, P_src_a>>, <<W_mv, Root, P_a>>, <<W_mv, P_src, P_readme>>,
      <<W_mv, P_index, P_a>> }

\* requests sent to a process that runs on the database: a directory
\* whose name begins with a backslash, its subdirectory b and the file c in
\* it; a second /src
N_bs == <<"\\", "a">>
P_bs == <<Slash>> \o N_bs
P_bs_b == P_bs \o <<Slash, "b">>
P_bs_b_c == P_bs_b \o <<Slash, "c">>

DbFileSpecs ==
    { [name |-> N_bs, path |-> P_bs, content |-> None,
       isDirectory |-> TRUE, parentPath |-> Root],
      [name |-> <<"b">>, path |-> P_bs_b, content |-> None,
       isDirectory |-> TRUE, parentPath |-> P_bs],
      [name |-> <<"c">>, path |-> P_bs_b_c, content |-> Some(TextX),
       isDirectory |-> FALSE, parentPath |-> P_bs_b],
      [name |-> N_src, path |-> P_src, content |-> None,
       isDirectory |-> TRUE, parentPath |-> Root] }

DbRoutePaths == {P_src, P_bs}
DbPatchPaths == {P_readme}
DbRenameTargets == {P_a, P_readme}

DbCommandLines ==
    { <<W_ls>>, <<W_cd, N_src>>, <<W_mkdir, N_a>>, <<W_rm, P_bs, FlagR>>,
      <<W_mv, P_src, P_a>> }

\* ------------------------------------------------------------- state
NoSession == <<>>

DefaultFiles == DefaultProject(1, 0)
FirstFreeId == Len(DefaultFiles) + 1
DbDefaultRows == DbDefaultProject(1, 0)
DbFirstFreeId == Len(DbDefaultRows) + 1

\* the slots of store calls in flight
CallIds == {1, 2}

\* initializeDefaultProject waits for its test select (0) or for the insert
\* of its k-th default file (k), or has returned
StartupReturned == Len(DbDefaultRows) + 1

\* After construction when DATABASE_URL is not set: the store is the
\* in-memory one from the start (storage.ts 23-27); no terminal session yet.
Init ==
    /\ fallbackStorage = TRUE
    /\ files = DefaultFiles
    /\ db = <<>>
    /\ dbConnected = FALSE
    /\ sessions = [s \in SessionIds |-> NoSession]
    /\ nextId = FirstFreeId
    /\ clock = 0
    /\ prev = DefaultFiles
    /\ prevSessions = [s \in SessionIds |-> NoSession]
    /\ last = NoRequest
    /\ pending = [c \in CallIds |-> Idle]
    /\ startup = StartupReturned
    /\ instances = 1

\* After construction when DATABASE_URL names a reachable database with an
\* empty table: initializeDefaultProject has run to its end.
InitDb ==
    /\ fallbackStorage = FALSE
    /\ files = <<>>
    /\ db = DbDefaultRows
    /\ dbConnected = TRUE
    /\ sessions = [s \in SessionIds |-> NoSession]
    /\ nextId = DbFirstFreeId
    /\ clock = 0
    /\ prev = DbDefaultRows
    /\ prevSessions = [s \in SessionIds |-> NoSession]
    /\ last = NoRequest
    /\ pending = [c \in CallIds |-> Idle]
    /\ startup = StartupReturned
    /\ instances = 0

\* the storage object, and the records a caller of it can see
Storage ==
    [fallbackStorage |-> fallbackStorage, files |-> files, db |-> db, nextId |-> nextId]

Store == Records(Storage)

\* the requests sent depend on the backend the process was started with
Limit == IF dbConnected THEN MaxDbClock ELSE MaxClock
PostBodies == IF dbConnected THEN DbFileSpecs ELSE FileSpecs
UrlPaths == IF dbConnected THEN DbRoutePaths ELSE RoutePaths
PatchUrlPaths == IF dbConnected THEN DbPatchPaths ELSE PatchPaths
NewPaths == IF dbConnected THEN DbRenameTargets ELSE RenameTargets
Lines == IF dbConnected THEN DbCommandLines ELSE CommandLines

\* what every handler leaves behind: the storage and registry it computed
\* and its response.  Requests are handled one at a time, each at a later
\* reading of the clock; a handler that finds the store without a fallback
\* and leaves it with one has constructed a MemoryStorage.
Handle(newStorage, newSessions, response) ==
    /\ fallbackStorage' = newStorage.fallbackStorage
    /\ files' = newStorage.files
    /\ db' = newStorage.db
    /\ nextId' = newStorage.nextId
    /\ dbConnected' = dbConnected
    /\ sessions' = newSessions
    /\ clock' = clock + 1
    /\ prev' = Store
    /\ prevSessions' = sessions
    /\ last' = response
    /\ instances' = IF newStorage.fallbackStorage /\ ~fallbackStorage
                    THEN instances + 1 ELSE instances
    /\ UNCHANGED <<pending, startup>>

\* the model stops taking requests when the clock reaches its limit
Commit(newStorage, newSessions, response) ==
    /\ clock < Limit
    /\ Handle(newStorage, newSessions, response)

\* GET /api/files
ListFiles ==
    Commit(Storage, sessions,
           [route |-> "getFiles", status |-> 200, body |-> storage_getFiles(Storage)])

\* GET /api/files/*
GetFileRoute ==
    \E filePath \in UrlPaths :
        LET file == storage_getFile(Storage, filePath)
        IN  Commit(Storage, sessions,
                   [route |-> "getFile", path |-> filePath,
                    status |-> IF file = <<>> THEN 404 ELSE 200, body |-> file])

\* POST /api/files
PostFileFrom(bodies) ==
    \E fileData \in bodies :
        LET r == storage_createFile(Storage, fileData, clock + 1)
        IN  Commit(r.storage, sessions,
                   [route |-> "createFile", fileData |-> fileData,
                    status |-> 201, body |-> <<r.result>>])

PostFile == PostFileFrom(PostBodies)

\* PATCH /api/files/*
PatchFile ==
    \E filePath \in PatchUrlPaths, updates \in Updates :
        LET r == storage_updateFile(Storage, filePath, updates, clock + 1)
        IN  Commit(r.storage, sessions,
                   [route |-> "updateFile", path |-> filePath, updates |-> updates,
                    status |-> IF r.result = <<>> THEN 404 ELSE 200,
                    body |-> r.result])

\* DELETE /api/files/*
DeleteFileFrom(paths) ==
    \E filePath \in paths :
        LET r == storage_deleteFile(Storage, filePath)
        IN  Commit(r.storage, sessions,
                   [route |-> "deleteFile", path |-> filePath,
                    status |-> IF r.result THEN 200 ELSE 404, body |-> r.result])

DeleteFileRoute == DeleteFileFrom(UrlPaths)

\* PUT /api/files/rename
RenameFileRoute ==
    \E oldPath \in UrlPaths, newPath \in NewPaths :
        LET r == storage_renameFile(Storage, oldPath, newPath, clock + 1)
        IN  Commit(r.storage, sessions,
                   [route |-> "renameFile", oldPath |-> oldPath, newPath |-> newPath,
                    status |-> IF r.result = <<>> THEN 404 ELSE 200,
                    body |-> r.result])

\* POST /api/terminal/session
CreateSession ==
    \E sessionId \in DOMAIN sessions :
        /\ sessions[sessionId] = NoSession      \* randomUUID() is a fresh id
        /\ Commit(Storage, [sessions EXCEPT ![sessionId] = Root],
                  [route |-> "createSession", sessionId |-> sessionId,
                   status |-> 200, body |-> [id |-> sessionId, cwd |-> Root]])

ExecuteResponse_AllSessions(sessionId, args, cwd, r) ==
    LET newCwd == IF /\ r.result.command = W_cd
                     /\ r.result.exitCode = 0
                     /\ r.result.newCwd # NULL
                  THEN r.result.newCwd ELSE cwd
    IN  [storage |-> r.storage,
         sessions |-> [s \in DOMAIN sessions |-> newCwd],
         response |-> [route |-> "execute", sessionId |-> sessionId, args |-> args,
                       cwdBefore |-> cwd, status |-> 200,
                       body |-> [command |-> args, stdout |-> r.result.stdout,
                                 stderr |-> r.result.stderr,
                                 exitCode |-> r.result.exitCode, cwd |-> newCwd]]]

\* POST /api/terminal/session/:sessionId/execute: the registry entry is
\* created on first use, the command runs against the entry's cwd, and a
\* successful cd moves the entry.  r is what executeVirtualCommand returned.
ExecuteResponse(sessionId, args, cwd, r) ==
    LET newCwd == IF /\ r.result.command = W_cd
                     /\ r.result.exitCode = 0
                     /\ r.result.newCwd # NULL
                  THEN r.result.newCwd ELSE cwd
    IN  [storage |-> r.storage,
         sessions |-> [sessions EXCEPT ![sessionId] = newCwd],
         response |-> [route |-> "execute", sessionId |-> sessionId, args |-> args,
                       cwdBefore |-> cwd, status |-> 200,
                       body |-> [command |-> args, stdout |-> r.result.stdout,
                                 stderr |-> r.result.stderr,
                                 exitCode |-> r.result.exitCode, cwd |-> newCwd]]]

ExecuteIn(sessionId, args, cwd) ==
    ExecuteResponse(sessionId, args, cwd,
                    executeVirtualCommand(Storage, cwd, args, clock + 1))

\* if (!command) return res.status(400)...: the registry is not looked at
ExecuteRefused(sessionId) ==
    [storage |-> Storage, sessions |-> sessions,
     response |-> [route |-> "execute", sessionId |-> sessionId, args |-> NoCommand,
                   status |-> 400, body |-> <<"Command is required">>]]

ExecuteRequest_StartsInSrc(sessionId, args) ==
    IF args = NoCommand THEN ExecuteRefused(sessionId)
    ELSE ExecuteIn(sessionId, args,
                   IF sessions[sessionId] = NoSession THEN P_src
                   ELSE sessions[sessionId])

ExecuteRequest(sessionId, args) ==
    IF args = NoCommand THEN ExecuteRefused(sessionId)
    ELSE ExecuteIn(sessionId, args,
                   IF sessions[sessionId] = NoSession THEN Root
                   ELSE sessions[sessionId])

\* the handler's outcome e, left behind
CommitOutcome(e) == Commit(e.storage, e.sessions, e.response)

ExecuteOf(lines) ==
    \E sessionId \in DOMAIN sessions, args \in lines \cup {NoCommand} :
        CommitOutcome(ExecuteRequest(sessionId, args))

Execute == ExecuteOf(Lines)

Next ==
    \/ ListFiles
    \/ GetFileRoute
    \/ PostFile
    \/ PatchFile
    \/ DeleteFileRoute
    \/ RenameFileRoute
    \/ CreateSession
    \/ Execute

Spec == Init /\ [][Next]_vars

\* the same routes on a process that runs on the database
SpecDb == InitDb /\ [][Next]_vars

\* ------------------------------------------- the store under concurrent calls
\* store calls made over the life of the process, and store calls made
\* while initializeDefaultProject fills an empty table
MaxCalls == 2
MaxStartupCalls == 1

P_package == <<Slash>> \o N_package

\* the calls route handlers make
StoreCalls ==
    { [op |-> "getFiles"],
      [op |-> "getFile", filePath |-> P_package],
      [op |-> "getFile", filePath |-> P_a],
      [op |-> "createFile",
       fileData |-> [name |-> N_a, path |-> P_a, content |-> Some(TextX),
                     isDirectory |-> FALSE, parentPath |-> Root]],
      [op |-> "createFile",
       fileData |-> [name |-> N_src, path |-> P_src, content |-> None,
                     isDirectory |-> TRUE, parentPath |-> Root]],
      [op |-> "updateFile", filePath |-> P_readme,
       updates |-> [hasName |-> FALSE, name |-> <<>>,
                    hasContent |-> TRUE, content |-> Some(TextX)]],
      [op |-> "deleteFile", filePath |-> P_src],
      [op |-> "renameFile", filePath |-> P_src, oldPath |-> P_src, newPath |-> P_a] }

\* A process started with DATABASE_URL set, right after the constructor:
\* initializeDefaultProject has sent its test select.  The table holds the
\* rows given.
Constructed(rows) ==
    /\ fallbackStorage = FALSE
    /\ files = <<>>
    /\ db = rows
    /\ dbConnected = FALSE
    /\ sessions = [s \in SessionIds |-> NoSession]
    /\ nextId = DbFirstFreeId
    /\ clock = 0
    /\ prev = db
    /\ prevSessions = [s \in SessionIds |-> NoSession]
    /\ last = NoRequest
    /\ pending = [c \in CallIds |-> Idle]
    /\ startup = 0
    /\ instances = 0

\* the table holds the default project an earlier run has put there
InitConcurrent == Constructed(DbDefaultRows)

\* the table is empty
InitStartup == Constructed(<<>>)

\* what one run o of call c leaves behind
Run(c, o, now) ==
    /\ fallbackStorage' = o.storage.fallbackStorage
    /\ files' = o.storage.files
    /\ db' = o.storage.db
    /\ nextId' = o.storage.nextId
    /\ pending' = [pending EXCEPT ![c] = o.call]
    /\ last' = IF o.response = NoRequest THEN last
               ELSE [o.response EXCEPT !.returnedAt = now]
    /\ instances' = instances + o.constructed
    /\ clock' = now
    /\ prev' = IF o.response = NoRequest THEN prev ELSE Store
    /\ UNCHANGED <<dbConnected, sessions, prevSessions, startup>>

\* a route handler calls a method of the store; the call takes the first
\* free slot
CallStoreUpTo(limit) ==
    \E c \in CallIds, req \in StoreCalls :
        /\ clock < limit
        /\ pending[c] = Idle
        /\ \A d \in CallIds : pending[d] = Idle => c <= d
        /\ Run(c, Call(Storage, req, clock + 1), clock + 1)

CallStore == CallStoreUpTo(MaxCalls)

CallDuringStartup == CallStoreUpTo(MaxStartupCalls)

\* the database answers the statement a call is waiting for
AnswerCall ==
    \E c \in CallIds, ok \in BOOLEAN :
        /\ pending[c] # Idle
        /\ Run(c, Answer(Storage, pending[c], ok, clock), clock)

\* initializeDefaultProject: the test select is answered
StartupTested ==
    /\ startup = 0
    /\ dbConnected' = TRUE
    /\ startup' = IF db # <<>> THEN StartupReturned ELSE 1
    /\ UNCHANGED <<fallbackStorage, files, db, sessions, nextId, clock, prev,
                   prevSessions, last, pending, instances>>

\* initializeDefaultProject: the insert of the next default file is answered
StartupInserted ==
    /\ startup \in 1..Len(DbDefaultRows)
    /\ ~MapHas(db, DbDefaultRows[startup].path)
    /\ db' = Append(db, [DbDefaultProject(1, clock)[startup] EXCEPT !.id = nextId])
    /\ nextId' = nextId + 1
    /\ startup' = startup + 1
    /\ UNCHANGED <<fallbackStorage, files, dbConnected, sessions, clock, prev,
                   prevSessions, last, pending, instances>>

\* initializeDefaultProject: the statement it is waiting for is answered
\* with an error (the database cannot be reached, or the insert would give
\* two rows one path), and its catch block runs
StartupFailed ==
    /\ startup < StartupReturned
    /\ fallbackStorage' = TRUE
    /\ files' = DefaultProject(nextId, clock)
    /\ nextId' = nextId + Len(DefaultProject(nextId, clock))
    /\ instances' = instances + 1
    /\ startup' = StartupReturned
    /\ UNCHANGED <<db, dbConnected, sessions, clock, prev, prevSessions, last,
                   pending>>

ConcurrentNext ==
    \/ CallStore
    \/ AnswerCall
    \/ StartupTested
    \/ StartupFailed

\* concurrent store calls on a table that holds the default project
SpecConcurrent == InitConcurrent /\ [][ConcurrentNext]_vars

StartupNext ==
    \/ CallDuringStartup
    \/ AnswerCall
    \/ StartupTested
    \/ StartupInserted
    \/ StartupFailed

\* store calls while initializeDefaultProject fills an empty table
SpecStartup == InitStartup /\ [][StartupNext]_vars

\* ------------------------------------- the mkdir/touch/mv/cat scenario
MaxPrelude == 2

P_c == <<"/", "c">>
N_btxt == <<"b", ".", "t", "x", "t">>
P_a_btxt == P_a \o <<Slash>> \o N_btxt
P_c_btxt == P_c \o <<Slash>> \o N_btxt

ScenarioLines ==
    << <<W_mkdir, P_a>>, <<W_touch, P_a_btxt>>, <<W_mv, P_a, P_c>>, <<W_cat, P_c_btxt>> >>

\* further request bodies of POST /api/files sent before the scenario starts
ScenarioFileSpecs ==
    { [name |-> N_btxt, path |-> P_a_btxt, content |-> Some(TextX),
       isDirectory |-> FALSE, parentPath |-> P_a],
      [name |-> N_btxt, path |-> P_c_btxt, content |-> Some(TextX),
       isDirectory |-> FALSE, parentPath |-> P_c] }

\* any requests may come first
Prelude ==
    /\ clock < MaxPrelude
    /\ (Next \/ PostFileFrom(ScenarioFileSpecs))

\* the scenario starts in session s1 when its cwd is "/" and the store has
\* no record at /a or /c; its four commands then follow one another
ScenarioStart ==
    /\ ~MapHas(Store, P_a)
    /\ ~MapHas(Store, P_c)
    /\ sessions["s1"] \in {NoSession, Root}

HandleOutcome(e) == Handle(e.storage, e.sessions, e.response)

ScenarioStep ==
    \E k \in 1..Len(ScenarioLines) :
        /\ IF k = 1 THEN ScenarioStart
           ELSE last.route = "execute" /\ last.args = ScenarioLines[k - 1]
        /\ HandleOutcome(ExecuteRequest("s1", ScenarioLines[k]))

ScenarioNext == Prelude \/ ScenarioStep

SpecScenario == Init /\ [][ScenarioNext]_vars

\* ------------------------------------------------ two terminal sessions
\* the ids of the terminals that send requests
TwoSessionIds == {"s1", "s2"}

\* their command lines; <<>> is a command of blanks only
SessionLines ==
    { <<>>, <<W_pwd>>, <<W_cd>>, <<W_cd, N_src>>, <<W_cd, DotDot>>,
      <<W_cd, P_readme>>, <<W_mkdir, P_src_a>>, <<W_cd, N_a>>,
      <<W_rm, P_src, FlagR>>, <<<<"f", "o", "o">>>> }

InitSessions ==
    /\ fallbackStorage = TRUE
    /\ files = DefaultFiles
    /\ db = <<>>
    /\ dbConnected = FALSE
    /\ sessions = [s \in TwoSessionIds |-> NoSession]
    /\ nextId = FirstFreeId
    /\ clock = 0
    /\ prev = DefaultFiles
    /\ prevSessions = [s \in TwoSessionIds |-> NoSession]
    /\ last = NoRequest
    /\ pending = [c \in CallIds |-> Idle]
    /\ startup = StartupReturned
    /\ instances = 1

ExecuteInSessions == ExecuteOf(SessionLines)

SessionsNext == CreateSession \/ ExecuteInSessions

SpecSessions == InitSessions /\ [][SessionsNext]_vars

\* ----------------------------------- shell commands, await by await
\* Two requests are handled at a time on a process that runs on the
\* database.  An execute handler runs executeVirtualCommand, which awaits
\* storage.getFile for its existence check and then, unless the check ends
\* the command, awaits the store call that changes the tree; a POST handler
\* awaits storage.createFile.  Between an await and the database's answer the
\* other handler may run.  Each slot handles one request.
ShellRequests ==
    { [route |-> "execute", args |-> <<W_mkdir, N_a>>],
      [route |-> "execute", args |-> <<W_touch, N_a>>],
      [route |-> "execute", args |-> <<W_rm, P_readme>>],
      [route |-> "execute", args |-> <<W_mv, P_readme, P_a>>],
      [route |-> "createFile",
       fileData |-> [name |-> N_a, path |-> P_a, content |-> Some(TextX),
                     isDirectory |-> FALSE, parentPath |-> Root]] }

\* the path the command checks: its first operand resolved against "/",
\* the cwd of a session on its first command
ShellPath(req) ==
    IF req.route = "execute" THEN Resolve(Root, req.args[2]) ELSE req.fileData.path

\* the existence check ends the command with file as the record found
ShellStops(req, file) ==
    CASE req.args[1] = W_mkdir -> file # <<>>
      [] req.args[1] = W_touch -> file # <<>>
      [] req.args[1] = W_rm ->
            \/ file = <<>>
            \/ ~rmAllowed(file[1], Tail(req.args))
      [] req.args[1] = W_mv -> file = <<>>

\* and the exit code it ends with
ShellStopCode(req) == IF req.args[1] = W_touch THEN 0 ELSE 1

\* the store call the command makes once the check has let it pass
ShellMutation(req) ==
    CASE req.args[1] = W_mkdir ->
            [op |-> "createFile",
             fileData |-> [name |-> DeriveName(req.args[2]), path |-> ShellPath(req),
                           content |-> None, isDirectory |-> TRUE,
                           parentPath |-> DeriveParent(ShellPath(req), req.args[2])]]
      [] req.args[1] = W_touch ->
            [op |-> "createFile",
             fileData |-> [name |-> DeriveName(req.args[2]), path |-> ShellPath(req),
                           content |-> Some(<<>>), isDirectory |-> FALSE,
                           parentPath |-> DeriveParent(ShellPath(req), req.args[2])]]
      [] req.args[1] = W_rm -> [op |-> "deleteFile", filePath |-> ShellPath(req)]
      [] req.args[1] = W_mv ->
            [op |-> "renameFile", filePath |-> ShellPath(req),
             oldPath |-> ShellPath(req), newPath |-> Resolve(Root, req.args[3])]

\* a handler that has answered: the exit code (the status for a POST),
\* whether it made its store call, the record that was at the path when that
\* call took effect, and what the call returned
Answered(h, code, called, atCall, result) ==
    [op |-> "done", req |-> h.req, code |-> code, called |-> called,
     atCall |-> atCall, result |-> result]

\* a handler waiting for the answer to the store call c
Waiting(req, phase, c) == [op |-> "shell", req |-> req, phase |-> phase, call |-> c]

\* the handler's store call, made on storage st with outcome o, has
\* resolved or waits for the database
AfterMutation(st, h, o) ==
    [storage |-> o.storage, constructed |-> o.constructed,
     handler |-> IF o.call # Idle THEN Waiting(h.req, "mutate", o.call)
                 ELSE Answered(h, IF h.req.route = "execute" THEN 0 ELSE 201, TRUE,
                               storage_getFile(st, ShellPath(h.req)),
                               o.response.body)]

\* the existence check has resolved to file on storage st
AfterCheck(st, h, file, constructed, now) ==
    IF ShellStops(h.req, file)
    THEN [storage |-> st, constructed |-> constructed,
          handler |-> Answered(h, ShellStopCode(h.req), FALSE, <<>>, <<>>)]
    ELSE [storage |-> Call(st, ShellMutation(h.req), now).storage,
          constructed |-> constructed + Call(st, ShellMutation(h.req), now).constructed,
          handler |-> AfterMutation(st, h, Call(st, ShellMutation(h.req), now)).handler]

\* the outcome o of a run of the handler's store call on storage st
AfterStore(st, h, o, now) ==
    IF o.call # Idle
    THEN [storage |-> o.storage, constructed |-> o.constructed,
          handler |-> Waiting(h.req, h.phase, o.call)]
    ELSE IF h.phase = "check"
    THEN AfterCheck(o.storage, h, o.response.body, o.constructed, now)
    ELSE AfterMutation(st, h, o)

\* a request arrives: the handler runs up to its first await on the database
Arrive(st, req, now) ==
    IF req.route = "execute"
    THEN AfterStore(st, Waiting(req, "check", Idle),
                    Call(st, [op |-> "getFile", filePath |-> ShellPath(req)], now), now)
    ELSE AfterStore(st, Waiting(req, "mutate", Idle),
                    Call(st, [op |-> "createFile", fileData |-> req.fileData], now), now)

\* what one run r of the handler in slot k leaves behind
RunShell(k, r, now) ==
    /\ fallbackStorage' = r.storage.fallbackStorage
    /\ files' = r.storage.files
    /\ db' = r.storage.db
    /\ nextId' = r.storage.nextId
    /\ pending' = [pending EXCEPT ![k] = r.handler]
    /\ instances' = instances + r.constructed
    /\ clock' = now
    /\ last' = IF r.handler.op = "done"
               THEN [route |-> "shell", slot |-> k, req |-> r.handler.req,
                     status |-> 200, body |-> r.handler]
               ELSE last
    /\ prev' = IF r.handler.op = "done" THEN Store ELSE prev
    /\ sessions' = [s \in DOMAIN sessions |-> Root]
    /\ UNCHANGED <<dbConnected, prevSessions, startup>>

ShellArrives ==
    \E k \in CallIds, req \in ShellRequests :
        /\ pending[k] = Idle
        /\ \A d \in CallIds : pending[d] = Idle => k <= d
        /\ RunShell(k, Arrive(Storage, req, clock + 1), clock + 1)

\* the database answers the statement the handler in slot k waits for
ShellAnswered ==
    \E k \in CallIds, ok \in BOOLEAN :
        /\ pending[k].op = "shell"
        /\ RunShell(k, AfterStore(Storage, pending[k],
                                  Answer(Storage, pending[k].call, ok, clock), clock),
                    clock)

ShellNext == ShellArrives \/ ShellAnswered

SpecShell == InitDb /\ [][ShellNext]_vars

\* -------------------------------------------------- search and GET routes
\* the table an earlier run has left: the directories /wyd and /d, the
\* file /a_b holding "x" and the file /ab holding "wy"
N_wy == <<"w", "y">>
N_wyd == <<"w", "y", "d">>
N_a_b == <<"a", "_", "b">>
N_ab == <<"a", "b">>
N_search == <<"s", "e", "a", "r", "c", "h">>
P_wy == <<Slash>> \o N_wy
P_wyd == <<Slash>> \o N_wyd
P_ab == <<Slash>> \o N_ab

SearchRows ==
    << File(1, N_wyd, P_wyd, None, TRUE, Root, 0),
       File(2, <<"d">>, <<Slash, "d">>, None, TRUE, Root, 0),
       File(3, N_a_b, <<Slash>> \o N_a_b, Some(TextX), FALSE, Root, 0),
       File(4, N_ab, P_ab, Some(N_wy), FALSE, Root, 0) >>

\* the file /wy with empty content and the file /c holding "wy_"
SearchBodies ==
    { [name |-> N_wy, path |-> P_wy, content |-> Some(<<>>),
       isDirectory |-> FALSE, parentPath |-> Root],
      [name |-> <<"c">>, path |-> <<Slash, "c">>, content |-> Some(N_wy \o <<"_">>),
       isDirectory |-> FALSE, parentPath |-> Root] }

SearchDeletePaths == {P_ab, P_wyd}

\* the queries: a word, and the two characters LIKE gives a meaning
SearchQueries == {N_wy, <<"_">>, <<"%">>}

\* the paths of GET requests below /api/files, as segments
GetUrls == {<<>>, <<N_ab>>, <<N_search>>} \cup {<<N_search, q>> : q \in SearchQueries}

InitSearch ==
    /\ fallbackStorage = FALSE
    /\ files = <<>>
    /\ db = SearchRows
    /\ dbConnected = TRUE
    /\ sessions = [s \in SessionIds |-> NoSession]
    /\ nextId = Len(SearchRows) + 1
    /\ clock = 0
    /\ prev = SearchRows
    /\ prevSessions = [s \in SessionIds |-> NoSession]
    /\ last = NoRequest
    /\ pending = [c \in CallIds |-> Idle]
    /\ startup = StartupReturned
    /\ instances = 0

\* storage.searchFiles(query), called on the store as it stands
SearchFiles ==
    \E query \in SearchQueries :
        Commit(Storage, sessions,
               [route |-> "searchFiles", url |-> <<>>, query |-> query,
                status |-> 200, body |-> storage_searchFiles(Storage, query)])

\* the GET routes below /api/files in the order registerRoutes registers
\* them, and whether the path with the segments segs matches the i-th:
\* "/api/files", "/api/files/*", "/api/files/search/:query"
GetRouteCount == 3
RouteMatches(i, segs) ==
    CASE i = 1 -> segs = <<>>
      [] i = 2 -> Len(segs) >= 1
      [] i = 3 -> Len(segs) = 2 /\ segs[1] = N_search

\* Express hands the request to the first registered route that matches
\* (no handler calls next()); 0 when none does
Dispatch(segs) ==
    LET hits == {i \in 1..GetRouteCount : RouteMatches(i, segs)}
    IN  IF hits = {} THEN 0
        ELSE CHOOSE i \in hits : \A j \in hits : i <= j

\* what the handler of the i-th route answers
GetResponse(i, segs) ==
    CASE i = 1 ->
           [route |-> "getFiles", url |-> segs, status |-> 200,
            body |-> storage_getFiles(Storage)]
      [] i = 2 ->
           LET filePath == <<Slash>> \o Join(segs, <<Slash>>)
               file == storage_getFile(Storage, filePath)
           IN  [route |-> "getFile", url |-> segs, path |-> filePath,
                status |-> IF file = <<>> THEN 404 ELSE 200, body |-> file]
      [] i = 3 ->
           [route |-> "searchFiles", url |-> segs, query |-> segs[2],
            status |-> 200, body |-> storage_searchFiles(Storage, segs[2])]

\* a GET request for /api/files followed by the segments segs
GetRequest ==
    \E segs \in GetUrls :
        /\ Dispatch(segs) # 0
        /\ Commit(Storage, sessions, GetResponse(Dispatch(segs), segs))

PostSearchFile == PostFileFrom(SearchBodies)

DeleteSearchFile == DeleteFileFrom(SearchDeletePaths)

SearchNext == SearchFiles \/ GetRequest \/ PostSearchFile \/ DeleteSearchFile

SpecSearch == InitSearch /\ [][SearchNext]_vars

\* ------------------------------------------------------- properties
\* the last request was the shell command w
IsExec(w) == last.route = "execute" /\ last.args # <<>> /\ last.args[1] = w

\* p is a record of store m and a directory
IsDirIn(m, p) == MapHas(m, p) /\ MapGet(m, p).isDirectory

\* records of m whose path starts with d's path followed by "/"
Below(m, d) == {i \in 1..Len(m) : StartsWith(m[i].path, d \o <<Slash>>)}

\* p with its final "/"-delimited segment removed ("/" when nothing is left)
Dirname(p) ==
    IF LastSlash(p) <= 1 THEN Root ELSE SubSeq(p, 1, LastSlash(p) - 1)

IsFlag(tok) == tok = FlagR \/ tok = FlagRF

\* C1 (as claimed): a delete(d) of a directory d that returns true leaves
\* neither d nor any record whose path starts with d's path followed by "/"
\* in the store, whichever backend serves the call.
C1_DeleteRemovesSubtree ==
    (/\ last.route = "deleteFile"
     /\ last.body = TRUE
     /\ IsDirIn(prev, last.path))
    => /\ ~MapHas(Store, last.path)
       /\ \A i \in Below(prev, last.path) : ~MapHas(Store, prev[i].path)

\* C2 (as claimed): after rename(d, d2) of a directory d every former
\* descendant is stored at d2 followed by its former suffix below d, and every
\* record that was neither d nor a descendant of d is stored unchanged under
\* its former path.
C2_RenameSubtreeAndFrame ==
    (/\ last.route = "renameFile"
     /\ last.status = 200
     /\ IsDirIn(prev, last.oldPath))
    => LET d == last.oldPath
           d2 == last.newPath
       IN  /\ \A i \in Below(prev, d) :
                LET to == d2 \o SubSeq(prev[i].path, Len(d) + 1, Len(prev[i].path))
                IN  MapHas(Store, to) /\ MapGet(Store, to).id = prev[i].id
           /\ \A i \in (1..Len(prev)) \ Below(prev, d) :
                prev[i].path # d
                => /\ MapHas(Store, prev[i].path)
                   /\ MapGet(Store, prev[i].path) = prev[i]

\* C3 (as claimed): after a rename(oldPath, newPath) that returns a record,
\* the record of oldPath is found at newPath with that path and the last
\* segment of newPath as its name, and oldPath is absent when it differs.
C3_RenameMovesTarget ==
    (last.route = "renameFile" /\ last.status = 200)
    => /\ MapHas(Store, last.newPath)
       /\ MapGet(Store, last.newPath).id = MapGet(prev, last.oldPath).id
       /\ MapGet(Store, last.newPath).path = last.newPath
       /\ MapGet(Store, last.newPath).name = SplitPop(last.newPath)
       /\ last.newPath # last.oldPath => ~MapHas(Store, last.oldPath)

\* C4 (as claimed): in every reachable state exactly one record has path
\* "/", it is a directory with parentPath null, and it is the record created
\* at store initialization.
C4_RootInvariant ==
    /\ MapHas(Store, Root)
    /\ MapGet(Store, Root).isDirectory
    /\ MapGet(Store, Root).parentPath = NULL
    /\ MapGet(Store, Root).id = DefaultFiles[1].id
    /\ Cardinality({i \in 1..Len(Store) : Store[i].path = Root}) = 1

\* C5 (as claimed): in every reachable state the parentPath of every non-root
\* record is null or the path of an existing directory record.
C5_NoOrphans ==
    \A i \in 1..Len(Store) :
        Store[i].path # Root
        => \/ Store[i].parentPath = NULL
           \/ IsDirIn(Store, Store[i].parentPath)

\* C6 (as claimed): in every reachable state the parentPath of every non-root
\* record is its path with the final segment removed, null being accepted
\* for "/".
C6_ParentIsDirname ==
    \A i \in 1..Len(Store) :
        Store[i].path # Root
        => \/ Store[i].parentPath = Dirname(Store[i].path)
           \/ (Store[i].parentPath = NULL /\ Dirname(Store[i].path) = Root)

\* C7 (as claimed): create with a path that already names a record fails
\* and leaves the store, the existing record included, unchanged.
C7_CreateConflict ==
    (last.route = "createFile" /\ MapHas(prev, last.fileData.path))
    => /\ last.status # 201
       /\ Store = prev

\* C8 (as claimed): rm with a -r or -rf token anywhere in its arguments and
\* an existing directory d as the other argument returns exit code 0 and
\* removes d with everything below it, for "rm -r d" as for "rm d -r".
C8_RmRecursiveAnyOrder ==
    \A k \in {2, 3} :
        (/\ IsExec(W_rm)
         /\ Len(last.args) = 3
         /\ IsFlag(last.args[5 - k])
         /\ ~IsFlag(last.args[k])
         /\ IsDirIn(prev, Resolve(last.cwdBefore, last.args[k])))
        => LET d == Resolve(last.cwdBefore, last.args[k])
           IN  /\ last.body.exitCode = 0
               /\ ~MapHas(Store, d)
               /\ \A i \in Below(prev, d) : ~MapHas(Store, prev[i].path)

\* C9: rm on a directory with no -r or -rf token in its arguments returns
\* exit code 1 with the is-a-directory message and leaves every record of
\* the store and the session cwd unchanged.
C9_RmDirectoryRefused ==
    (/\ IsExec(W_rm)
     /\ Len(last.args) >= 2
     /\ \A k \in 2..Len(last.args) : ~IsFlag(last.args[k])
     /\ IsDirIn(prev, Resolve(last.cwdBefore, last.args[2])))
    => /\ last.body.exitCode = 1
       /\ last.body.stdout = <<>>
       /\ last.body.stderr =
              <<"rm: cannot remove '">> \o last.args[2] \o <<"': Is a directory\n">>
       /\ Store = prev
       /\ last.body.cwd = last.cwdBefore
       /\ sessions[last.sessionId] = last.cwdBefore

\* C9 witness: rm without a flag was answered for a directory that has a child
C9_Witness ==
    /\ IsExec(W_rm)
    /\ Len(last.args) = 2
    /\ ~IsFlag(last.args[2])
    /\ IsDirIn(prev, Resolve(last.cwdBefore, last.args[2]))
    /\ Below(prev, Resolve(last.cwdBefore, last.args[2])) # {}
    /\ last.body.exitCode = 1
    /\ Store = prev

\* C10 (as claimed): from a store with no record at /a or /c and cwd "/",
\* mkdir /a, touch /a/b.txt, mv /a /c, cat /c/b.txt ends with cat printing a
\* single newline with exit code 0, /a and /a/b.txt absent, and /c/b.txt
\* present with parentPath /c.
C10_Scenario ==
    (last.route = "execute" /\ last.args = ScenarioLines[4])
    => /\ last.body.stdout = NL
       /\ last.body.exitCode = 0
       /\ ~MapHas(Store, P_a)
       /\ ~MapHas(Store, P_a_btxt)
       /\ MapHas(Store, P_c_btxt)
       /\ MapGet(Store, P_c_btxt).parentPath = P_c

C12_SingleFallback == [][fallbackStorage => instances' = instances]_vars

\* C13: a call whose statement the database refuses because two rows would
\* get one path returns as a call served by the database does, and leaves
\* fallbackStorage as it was (only an unreachable database sets it).
C13_ConflictKeepsDatabase ==
    [][(last' # last /\ last'.route # "none" /\ last'.cause = "constraint")
         => (fallbackStorage' = fallbackStorage /\ last'.servedBy = "database")]_vars

\* C14: a getFile call whose statement fails, and which is therefore
\* answered by the fallback, returns what it would have returned had the
\* statement not failed: the row the table holds for the path (absent when
\* it holds none).
C14_FallbackInvisible ==
    [][(last' # last /\ last'.route = "getFile" /\ last'.cause = "unavailable")
         => last'.body = getFile(db, last'.req.filePath)]_vars

\* the records seen hold the directory that call c renames under its new
\* path together with a record that is still below its old path
PartlyMoved(seen, c) ==
    /\ \E i \in 1..Len(seen) :
          seen[i].id = c.file[1].id /\ seen[i].path = c.req.newPath
    /\ \E i \in 1..Len(seen) :
          seen[i].id # c.file[1].id /\ DbIsChildOf(seen[i], c.req.oldPath)

\* C15: no getFiles call that returns while a rename of a directory is in
\* flight sees the directory moved and some of its descendants not moved.
C15_CascadeAtomic ==
    [][(last' # last /\ last'.route = "getFiles")
         => \A c \in CallIds :
              (/\ pending'[c] # Idle
               /\ pending'[c].op = "renameFile"
               /\ pending'[c].pc \in {"select", "child"})
              => ~PartlyMoved(last'.body, pending'[c])]_vars

\* the last command, run once more in the state it has left
RunAgain == executeVirtualCommand(Storage, last.cwdBefore, last.args, clock + 1)

\* C16: touch on a path that names a file returns exit code 0 with empty
\* stdout and stderr and leaves every record as it was; and after any touch
\* that returned 0, the same touch run again leaves the store as it is.
C16_TouchExisting ==
    (IsExec(W_touch) /\ Len(last.args) >= 2)
    => /\ (/\ MapHas(prev, Resolve(last.cwdBefore, last.args[2]))
           /\ ~MapGet(prev, Resolve(last.cwdBefore, last.args[2])).isDirectory)
          => /\ last.body.exitCode = 0
             /\ last.body.stdout = <<>>
             /\ last.body.stderr = <<>>
             /\ Store = prev
       /\ last.body.exitCode = 0
          => /\ RunAgain.result.exitCode = 0
             /\ Records(RunAgain.storage) = Store

\* touch has been run on a path that named a file
C16_Witness ==
    /\ IsExec(W_touch)
    /\ Len(last.args) >= 2
    /\ MapHas(prev, Resolve(last.cwdBefore, last.args[2]))
    /\ ~MapGet(prev, Resolve(last.cwdBefore, last.args[2])).isDirectory
    /\ last.body.exitCode = 0
    /\ Store = prev

\* C17: a getFile(p) that is called after createFile returned a record with
\* path p, and returns before any other call does, returns that record,
\* whichever backend served either call.
C17_CreateThenGet ==
    [][(/\ last.route = "createFile"
        /\ last' # last
        /\ last'.route = "getFile"
        /\ last'.calledAt > last.returnedAt
        /\ last'.req.filePath = last.req.fileData.path)
         => last'.body = <<last.body>>]_vars

\* no two records of m have the same path
UniquePaths(m) == \A i, j \in 1..Len(m) : m[i].path = m[j].path => i = j

\* C18: in every reachable state no two records of the fallback's Map, and
\* no two rows of the table, have the same path, whatever create or rename
\* was handled last.
C18_UniquePaths == UniquePaths(files) /\ UniquePaths(db)

\* a rename onto an occupied path has been handled and answered with a record
C18_Witness ==
    /\ last.route = "renameFile"
    /\ last.oldPath # last.newPath
    /\ MapHas(prev, last.oldPath)
    /\ MapHas(prev, last.newPath)
    /\ last.status = 200
    /\ UniquePaths(Store)

\* the path a cd with the arguments args resolves to from cwd
CdResolved(cwd, args) ==
    IF Len(args) < 2 \/ args[2] = Root THEN Root
    ELSE IF args[2] = DotDot \/ args[2] = DotDotSlash THEN Dirname(cwd)
    ELSE Resolve(cwd, args[2])

\* C19: a cd that returns 0 has set the session cwd to the resolved target,
\* which names a directory record; a cd whose resolved target is absent or
\* no directory returns 1 with the no-such-directory message and leaves the
\* session cwd as it was; cd without operand and cd / return 0 and set the
\* cwd to "/".
C19_CdOutcome ==
    IsExec(W_cd)
    => /\ last.body.exitCode = 0
          => /\ sessions[last.sessionId] = CdResolved(last.cwdBefore, last.args)
             /\ IsDirIn(Store, CdResolved(last.cwdBefore, last.args))
       /\ ~IsDirIn(prev, CdResolved(last.cwdBefore, last.args))
          => /\ last.body.exitCode = 1
             /\ last.body.stderr =
                    <<"cd: ">> \o (IF Len(last.args) < 2 THEN Root ELSE last.args[2])
                        \o <<": No such directory\n">>
             /\ sessions[last.sessionId] = last.cwdBefore
       /\ (Len(last.args) < 2 \/ last.args[2] = Root)
          => /\ last.body.exitCode = 0
             /\ sessions[last.sessionId] = Root

\* C20: cd .. returns 0 and sets the session cwd to the cwd with its last
\* segment removed, "/" when the cwd has one segment or is "/" already.
C20_CdDotDot ==
    (IsExec(W_cd) /\ Len(last.args) >= 2 /\ last.args[2] = DotDot)
    => /\ last.body.exitCode = 0
       /\ sessions[last.sessionId] = Dirname(last.cwdBefore)
       /\ sessions[last.sessionId] # <<>>

\* the cwd a session has for the next command: "/" while it has no entry
CwdOf(reg, s) == IF reg[s] = NoSession THEN Root ELSE reg[s]

\* C21: an execute call on session s leaves the registry entry of every
\* other session as it was, and the cwd of s differs after the call only
\* when the command was a cd that returned exit code 0; any other command,
\* a failed cd and a refused request leave every cwd as it was.
C21_SessionsIndependent ==
    last.route = "execute"
    => /\ \A t \in DOMAIN sessions \ {last.sessionId} : sessions[t] = prevSessions[t]
       /\ CwdOf(sessions, last.sessionId) # CwdOf(prevSessions, last.sessionId)
          => (IsExec(W_cd) /\ last.body.exitCode = 0)
       /\ ~(IsExec(W_cd) /\ last.body.exitCode = 0)
          => \A t \in DOMAIN sessions : CwdOf(sessions, t) = CwdOf(prevSessions, t)

\* a successful cd has moved s1 while s2 stands in /src
C21_Witness ==
    /\ IsExec(W_cd) /\ last.body.exitCode = 0 /\ last.sessionId = "s1"
    /\ sessions["s1"] # CwdOf(prevSessions, "s1")
    /\ "s2" \in DOMAIN sessions /\ sessions["s2"] = P_src

\* C22: an execute call that carries a command and names a session without
\* registry entry runs the command against "/" and leaves an entry for that
\* session, with cwd "/" unless the command was a cd that succeeded; the
\* create endpoint answers with cwd "/" and leaves the entry at "/".
C22_LazySession ==
    /\ (last.route = "execute" /\ last.status = 200
            /\ prevSessions[last.sessionId] = NoSession)
       => /\ last.cwdBefore = Root
          /\ sessions[last.sessionId] # NoSession
          /\ ~(IsExec(W_cd) /\ last.body.exitCode = 0)
             => (sessions[last.sessionId] = Root /\ last.body.cwd = Root)
    /\ last.route = "createSession"
       => /\ prevSessions[last.sessionId] = NoSession
          /\ sessions[last.sessionId] = Root
          /\ last.body.cwd = Root

\* a first command in a session that was never created: pwd prints "/"
C22_Witness ==
    /\ last.route = "execute" /\ last.status = 200
    /\ prevSessions[last.sessionId] = NoSession
    /\ last.args = <<W_pwd>>
    /\ last.body.stdout = Root \o NL
    /\ sessions[last.sessionId] = Root
    /\ \E t \in DOMAIN sessions : sessions[t] = P_src

\* C23: the array GET /api/files answers with holds every record of the
\* store exactly once, no directory stands behind a non-directory, and of
\* two neighbours of the same kind the first name does not sort after the
\* second under the locale-aware comparison.
C23_ListOrder ==
    last.route = "getFiles"
    => /\ Len(last.body) = Len(Store)
       /\ \A i \in DOMAIN Store :
              Cardinality({j \in DOMAIN last.body : last.body[j] = Store[i]}) = 1
       /\ \A i, j \in DOMAIN last.body :
              (i < j /\ last.body[j].isDirectory) => last.body[i].isDirectory
       /\ \A i \in DOMAIN last.body :
              (i < Len(last.body)
                  /\ last.body[i].isDirectory = last.body[i + 1].isDirectory)
              => localeCompare(last.body[i].name, last.body[i + 1].name) <= 0

\* a listing in which the Map order differs from the answer: the directory
\* created last stands before the default files
C23_Witness ==
    /\ last.route = "getFiles"
    /\ Len(last.body) >= 4
    /\ Store[Len(Store)].isDirectory
    /\ ~last.body[Len(last.body)].isDirectory
    /\ \E i \in DOMAIN last.body :
           /\ i < Len(last.body)
           /\ last.body[i].isDirectory = last.body[i + 1].isDirectory
           /\ localeCompare(last.body[i].name, last.body[i + 1].name) < 0

\* s holds q as a substring; with fold, letters compared without regard
\* to case
Holds(s, q, fold) ==
    LET a == IF fold THEN toLowerCase(s) ELSE s
        b == IF fold THEN toLowerCase(q) ELSE q
    IN  \E k \in 0..(Len(a) - Len(b)) : SubSeq(a, k + 1, k + Len(b)) = b

\* the record's name or its content holds q
Matches(file, q, fold) ==
    \/ Holds(file.name, q, fold)
    \/ file.content # None /\ Holds(file.content[1], q, fold)

\* C24: searchFiles(q) answers with the records of the store whose name or
\* content holds q as a substring, each once and no other record, under
\* one of the two readings of case the specification allows.
C24_SearchExact ==
    (last.route = "searchFiles" /\ last.url = <<>>)
    => \E fold \in BOOLEAN :
          /\ \A i, j \in DOMAIN last.body : last.body[i] = last.body[j] => i = j
          /\ {last.body[i] : i \in DOMAIN last.body}
                = {prev[i] : i \in {k \in DOMAIN prev : Matches(prev[k], last.query, fold)}}

\* C25: a GET request for /api/files/search/{query} is answered with status
\* 200 and the array storage.searchFiles(query) returns on the store as the
\* request finds it.
C25_SearchRoute ==
    ("url" \in DOMAIN last /\ Len(last.url) = 2 /\ last.url[1] = N_search)
    => /\ last.status = 200
       /\ last.body = storage_searchFiles(Storage, last.url[2])

\* the records ls is to list in a session standing in cwd: those of store m
\* whose parentPath is cwd (at "/" also the null of older records), the cwd
\* directory itself left out, in the order of getFiles
LsChildren(m, cwd) ==
    SelectSeq(SortFiles(m), LAMBDA f :
        /\ f.path # cwd
        /\ \/ f.parentPath = cwd
           \/ cwd = Root /\ f.parentPath = NULL)

LsName(f) == IF f.isDirectory THEN f.name \o <<Slash>> ELSE f.name

\* C26: ls returns exit code 0 and prints the names of the children of the
\* session cwd, directories with "/" appended, joined by two blanks; the
\* cwd directory itself and the records of other directories are not in it.
C26_LsChildren ==
    IsExec(W_ls)
    => /\ last.body.exitCode = 0
       /\ last.body.stdout =
            Join([i \in 1..Len(LsChildren(prev, last.cwdBefore)) |->
                     LsName(LsChildren(prev, last.cwdBefore)[i])], <<" ", " ">>) \o NL

\* the records of m as a set
RecordsOf(m) == {m[i] : i \in DOMAIN m}

\* C27: mkdir with an operand whose resolved path names a record returns
\* exit code 1 with the File-exists message and leaves the store as it was;
\* on a free path it returns 0 and the store holds the records it held and
\* one more, a directory with that path and null content.
C27_Mkdir ==
    (IsExec(W_mkdir) /\ Len(last.args) >= 2)
    => IF MapHas(prev, Resolve(last.cwdBefore, last.args[2]))
       THEN /\ last.body.exitCode = 1
            /\ last.body.stdout = <<>>
            /\ last.body.stderr = <<"mkdir: cannot create directory '">> \o last.args[2]
                                      \o <<"': File exists\n">>
            /\ Store = prev
       ELSE /\ last.body.exitCode = 0
            /\ Len(Store) = Len(prev) + 1
            /\ RecordsOf(prev) \subseteq RecordsOf(Store)
            /\ \E f \in RecordsOf(Store) \ RecordsOf(prev) :
                   /\ f.path = Resolve(last.cwdBefore, last.args[2])
                   /\ f.isDirectory
                   /\ f.content = None

\* mkdir a has been refused because an earlier mkdir a made the directory
C27_Witness ==
    /\ IsExec(W_mkdir) /\ last.args = <<W_mkdir, N_a>>
    /\ last.body.exitCode = 1
    /\ MapHas(Store, P_a)
    /\ MapGet(Store, P_a).isDirectory
    /\ MapGet(Store, P_a).name = N_a
    /\ MapGet(Store, P_a).parentPath = NULL
    /\ MapGet(Store, P_a).id >= FirstFreeId

\* C28: mv with two operands resolves both against the session cwd; when no
\* record is at the resolved source it returns exit code 1 with the
\* cannot-stat message and leaves the store as it was; otherwise it returns
\* 0 and the record that was at the source is the one at the resolved
\* destination.
C28_Mv ==
    (IsExec(W_mv) /\ Len(last.args) >= 3)
    => IF ~MapHas(prev, Resolve(last.cwdBefore, last.args[2]))
       THEN /\ last.body.exitCode = 1
            /\ last.body.stderr = <<"mv: cannot stat '">> \o last.args[2]
                                      \o <<"': No such file or directory\n">>
            /\ Store = prev
       ELSE /\ last.body.exitCode = 0
            /\ MapHas(Store, Resolve(last.cwdBefore, last.args[3]))
            /\ MapGet(Store, Resolve(last.cwdBefore, last.args[3])).id
                  = MapGet(prev, Resolve(last.cwdBefore, last.args[2])).id

\* the command words executeVirtualCommand knows
KnownCommands ==
    {W_pwd, W_ls, W_cd, W_cat, W_touch, W_mkdir, W_rm, W_mv, W_echo, W_clear, W_help}

\* C29: a command line whose first word is not a known command returns
\* stderr "<word>: command not found\n", empty stdout and exit code 127, and
\* leaves the store and the cwd of every session as they were.
C29_UnknownCommand ==
    (last.route = "execute" /\ last.status = 200 /\ last.args # <<>>
        /\ last.args[1] \notin KnownCommands)
    => /\ last.body.stderr = last.args[1] \o <<": command not found\n">>
       /\ last.body.stdout = <<>>
       /\ last.body.exitCode = 127
       /\ Store = prev
       /\ \A t \in DOMAIN sessions : CwdOf(sessions, t) = CwdOf(prevSessions, t)

\* foo has been typed in a session standing in /src, after the store changed
C29_Witness ==
    /\ last.route = "execute" /\ last.status = 200
    /\ last.args = <<<<"f", "o", "o">>>>
    /\ last.body.exitCode = 127
    /\ sessions[last.sessionId] = P_src
    /\ Store # DefaultFiles

\* C30: an update of a path without record answers absent (404) and leaves
\* the store as it was; an update of a path with a record leaves every
\* other record as it was and that record with its id, path, isDirectory,
\* parentPath and createdAt, its name and content changed only where the
\* request supplied them, and answers with the record as it now is.
C30_UpdateFrame ==
    last.route = "updateFile"
    => IF ~MapHas(prev, last.path)
       THEN /\ last.status = 404
            /\ last.body = <<>>
            /\ Store = prev
       ELSE /\ last.status = 200
            /\ Len(Store) = Len(prev)
            /\ \A i \in DOMAIN prev :
                  IF prev[i].path # last.path THEN Store[i] = prev[i]
                  ELSE /\ Store[i].id = prev[i].id
                       /\ Store[i].path = prev[i].path
                       /\ Store[i].isDirectory = prev[i].isDirectory
                       /\ Store[i].parentPath = prev[i].parentPath
                       /\ Store[i].createdAt = prev[i].createdAt
                       /\ Store[i].name = IF last.updates.hasName
                                          THEN last.updates.name ELSE prev[i].name
                       /\ Store[i].content = IF last.updates.hasContent
                                             THEN last.updates.content ELSE prev[i].content
                       /\ last.body = <<Store[i]>>

\* the directory /src has been given the name a and is still /src
C30_Witness ==
    /\ last.route = "updateFile" /\ last.status = 200
    /\ last.path = P_src /\ last.updates.hasName
    /\ MapHas(Store, P_src)
    /\ MapGet(Store, P_src).name = N_a
    /\ MapGet(Store, P_src).isDirectory
    /\ MapGet(prev, P_src).name = N_src
    /\ MapGet(Store, P_src).updatedAt > MapGet(Store, P_src).createdAt

\* C31: a delete of a path without record returns false and leaves the
\* store as it was, and a delete returns true exactly when the record that
\* was at the path is gone after the call; a rename of a path without
\* record returns absent and leaves the store as it was.
C31_AbsentTarget ==
    /\ last.route = "deleteFile"
       => /\ ~MapHas(prev, last.path) => (last.body = FALSE /\ Store = prev)
          /\ last.body = TRUE
                <=> /\ MapHas(prev, last.path)
                    /\ \A i \in DOMAIN Store : Store[i].id # MapGet(prev, last.path).id
    /\ last.route = "renameFile"
       => (~MapHas(prev, last.oldPath) => (last.body = <<>> /\ Store = prev))

\* C32: every directory record of the store has null content.
C32_DirectoryContent ==
    \A i \in DOMAIN Store : Store[i].isDirectory => Store[i].content = None

\* C33: after a create, update or rename call, every path that had a record
\* before the call and has one after it holds a record with the same id and
\* the same isDirectory.
C33_IdAndKindKept ==
    last.route \in {"createFile", "updateFile", "renameFile"}
    => \A i \in DOMAIN prev, j \in DOMAIN Store :
           prev[i].path = Store[j].path
           => /\ Store[j].id = prev[i].id
              /\ Store[j].isDirectory = prev[i].isDirectory

\* the parentPath chain of record f of store m leads back to the directory
\* d within n steps (null stands for "/" on any record but the root)
RECURSIVE ChainLeads(_, _, _, _)
ChainLeads(m, f, d, n) ==
    LET parent == IF f.parentPath = NULL /\ f.path # Root THEN Root ELSE f.parentPath
    IN  /\ n > 0
        /\ parent # NULL
        /\ \/ parent = d
           \/ /\ MapHas(m, parent)
              /\ ChainLeads(m, MapGet(m, parent), d, n - 1)

\* the records of m under the path prefix of the directory d: path begins
\* with d's path and "/", and for the root with "/"
Under(m, d) ==
    IF d = Root THEN {i \in DOMAIN m : m[i].path # Root /\ StartsWith(m[i].path, Root)}
    ELSE Below(m, d)

\* C34: for every directory d of the store, the records whose path starts
\* with d's path followed by "/" are the records whose parentPath chain
\* leads back to d; and a delete or rename of a directory d leaves every
\* record that is neither d nor under d's path prefix as it was.
C34_SubtreeIsPrefix ==
    /\ \A k \in DOMAIN Store :
          Store[k].isDirectory
          => Under(Store, Store[k].path)
                = {i \in DOMAIN Store :
                      ChainLeads(Store, Store[i], Store[k].path, Len(Store))}
    /\ (/\ last.route \in {"deleteFile", "renameFile"}
        /\ last.status = 200
        /\ IsDirIn(prev, IF last.route = "deleteFile" THEN last.path ELSE last.oldPath))
       => LET d == IF last.route = "deleteFile" THEN last.path ELSE last.oldPath
          IN  \A i \in (DOMAIN prev) \ Under(prev, d) :
                  prev[i].path # d
                  => \E j \in DOMAIN Store : Store[j] = prev[i]

\* C35: the name of every record but the root is the final "/"-delimited
\* segment of its path.
C35_NameIsLastSegment ==
    \A i \in DOMAIN Store :
        Store[i].path # Root
        => Store[i].name = SubSeq(Store[i].path, LastSlash(Store[i].path) + 1,
                                  Len(Store[i].path))

C37_RenameKeepsIds ==
    last.route = "renameFile"
    => {Store[i].id : i \in DOMAIN Store} = {prev[i].id : i \in DOMAIN prev}

\* the handlers of SpecShell that have answered
Done == {k \in CallIds : pending[k].op = "done"}
DoneCommand(k, w) ==
    /\ k \in Done
    /\ pending[k].req.route = "execute"
    /\ pending[k].req.args[1] = w

\* C38: the existence check and the create of mkdir and touch act as one
\* step.  Of two mkdir of the same path at most one returns exit code 0; a
\* mkdir or touch that reaches its create finds the path still free when the
\* create takes effect, so no record is replaced; and a touch leaves the
\* content of a file that appeared after its check as it was.
C38_CheckThenCreate ==
    /\ \A j, k \in Done :
           /\ j # k
           /\ DoneCommand(j, W_mkdir) /\ DoneCommand(k, W_mkdir)
           /\ ShellPath(pending[j].req) = ShellPath(pending[k].req)
           => ~(pending[j].code = 0 /\ pending[k].code = 0)
    /\ \A k \in Done :
           (DoneCommand(k, W_mkdir) \/ DoneCommand(k, W_touch)) /\ pending[k].called
           => pending[k].atCall = <<>>
    /\ \A k \in Done :
           DoneCommand(k, W_touch) /\ pending[k].called /\ pending[k].atCall # <<>>
           => storage_getFile(Storage, ShellPath(pending[k].req))
                  = pending[k].atCall

\* C39: rm returns exit code 0 only if its own deleteFile call returned
\* true, and mv returns exit code 0 only if its own renameFile call returned
\* a record, whatever ran between the existence check and the mutation.
C39_ExitCodeFollowsStore ==
    \A k \in Done :
        /\ DoneCommand(k, W_rm) /\ pending[k].code = 0
           => pending[k].called /\ pending[k].result = TRUE
        /\ DoneCommand(k, W_mv) /\ pending[k].code = 0
           => pending[k].called /\ pending[k].result # <<>>

====
